---- MODULE Spec2Model ----
(***************************************************************************)
(* Model of the deterministic extraction-and-flagging core of the blood    *)
(* test analysis repository: flag_logic.py (reference-range classifier)   *)
(* and extractor.py (report structuring engine).                          *)
(*                                                                         *)
(* Representation.  A Python str is a sequence of one-character strings,  *)
(* "Hb 5" being <<"H", "b", " ", "5">>.  The en dash U+2013 and the em     *)
(* dash U+2014 are the atoms "ndash" and "mdash".  Positions are 1-based;  *)
(* a match is a pair [start |-> i, end |-> e] covering s[i] .. s[e-1]      *)
(* (Python's span, shifted by one).  Optional values are sequences of     *)
(* length at most one: <<>> is None and <<x>> is x.                        *)
(*                                                                         *)
(* Floats.  A float is an IEEE 754 binary64 value, held as the record      *)
(* [kind, neg, digits, exp]: a finite float is its sign and the shortest   *)
(* decimal that float() reads back as the same double, digits * 10^exp     *)
(* with the digits most significant first, which are the digits repr()     *)
(* prints, so that equal doubles are equal records and the doubles are     *)
(* ordered as the records are.  float() rounds a literal to the nearest    *)
(* double, ties to even: it overflows to inf from 2^1024 on and goes       *)
(* through the subnormals down to zero.  0.0 and -0.0, which are equal,    *)
(* are one record, without digits; inf, -inf and nan are Inf, NegInf and   *)
(* NaN.                                                                    *)
(*                                                                         *)
(* Characters.  A printable ASCII character is the string of itself, and   *)
(* tab, line feed, carriage return and form feed are "\t", "\n", "\r" and  *)
(* "\f".  Every other character is the atom "U+XXXX" of its code point in  *)
(* upper-case hexadecimal with at least four digits: "U+000B" is the       *)
(* vertical tab, "U+00A0" the no-break space, "U+0663" the Arabic-Indic    *)
(* digit three, "U+1D7CE" a mathematical bold zero, and "U+0060" the grave *)
(* accent, which no TLA+ string holds (form feed may also be written       *)
(* "U+000C").  The en dash and the em dash alone keep the names "ndash"    *)
(* and "mdash".  The character classes are those of Python 3.11 (Unicode  *)
(* 14): \d, \s, str.isdigit, str.isspace, str.splitlines and str.lower     *)
(* are tabulated over all code points.                                     *)
(***************************************************************************)
EXTENDS Integers, Sequences, FiniteSets, TLC

VARIABLES op, arg, out, pc, calls, heap

vars == <<op, arg, out, pc, calls, heap>>

-----------------------------------------------------------------------------
(* Characters and str methods *)

\* the concatenation of a list of strings
RECURSIVE Flatten(_)
Flatten(ss) ==
  IF ss = <<>> THEN <<>>
  ELSE IF Len(ss) = 1 THEN ss[1]
  ELSE Flatten(SubSeq(ss, 1, Len(ss) \div 2)) \o Flatten(SubSeq(ss, (Len(ss) \div 2) + 1, Len(ss)))

(* The characters \d matches, the decimal digits of Unicode, in code point *)
(* order: every script's digits are ten in a row, from zero to nine.       *)
DigitChars ==
  <<
    "0", "1", "2", "3", "4", "5", "6", "7", "8", "9", "U+0660", "U+0661", "U+0662", "U+0663",
    "U+0664", "U+0665", "U+0666", "U+0667", "U+0668", "U+0669", "U+06F0", "U+06F1", "U+06F2",
    "U+06F3", "U+06F4", "U+06F5", "U+06F6", "U+06F7", "U+06F8", "U+06F9", "U+07C0", "U+07C1",
    "U+07C2", "U+07C3", "U+07C4", "U+07C5", "U+07C6", "U+07C7", "U+07C8", "U+07C9", "U+0966",
    "U+0967", "U+0968", "U+0969", "U+096A", "U+096B", "U+096C", "U+096D", "U+096E", "U+096F",
    "U+09E6", "U+09E7", "U+09E8", "U+09E9", "U+09EA", "U+09EB", "U+09EC", "U+09ED", "U+09EE",
    "U+09EF", "U+0A66", "U+0A67", "U+0A68", "U+0A69", "U+0A6A", "U+0A6B", "U+0A6C", "U+0A6D",
    "U+0A6E", "U+0A6F", "U+0AE6", "U+0AE7", "U+0AE8", "U+0AE9", "U+0AEA", "U+0AEB", "U+0AEC",
    "U+0AED", "U+0AEE", "U+0AEF", "U+0B66", "U+0B67", "U+0B68", "U+0B69", "U+0B6A", "U+0B6B",
    "U+0B6C", "U+0B6D", "U+0B6E", "U+0B6F", "U+0BE6", "U+0BE7", "U+0BE8", "U+0BE9", "U+0BEA",
    "U+0BEB", "U+0BEC", "U+0BED", "U+0BEE", "U+0BEF", "U+0C66", "U+0C67", "U+0C68", "U+0C69",
    "U+0C6A", "U+0C6B", "U+0C6C", "U+0C6D", "U+0C6E", "U+0C6F", "U+0CE6", "U+0CE7", "U+0CE8",
    "U+0CE9", "U+0CEA", "U+0CEB", "U+0CEC", "U+0CED", "U+0CEE", "U+0CEF", "U+0D66", "U+0D67",
    "U+0D68", "U+0D69", "U+0D6A", "U+0D6B", "U+0D6C", "U+0D6D", "U+0D6E", "U+0D6F", "U+0DE6",
    "U+0DE7", "U+0DE8", "U+0DE9", "U+0DEA", "U+0DEB", "U+0DEC", "U+0DED", "U+0DEE", "U+0DEF",
    "U+0E50", "U+0E51", "U+0E52", "U+0E53", "U+0E54", "U+0E55", "U+0E56", "U+0E57", "U+0E58",
    "U+0E59", "U+0ED0", "U+0ED1", "U+0ED2", "U+0ED3", "U+0ED4", "U+0ED5", "U+0ED6", "U+0ED7",
    "U+0ED8", "U+0ED9", "U+0F20", "U+0F21", "U+0F22", "U+0F23", "U+0F24", "U+0F25", "U+0F26",
    "U+0F27", "U+0F28", "U+0F29", "U+1040", "U+1041", "U+1042", "U+1043", "U+1044", "U+1045",
    "U+1046", "U+1047", "U+1048", "U+1049", "U+1090", "U+1091", "U+1092", "U+1093", "U+1094",
    "U+1095", "U+1096", "U+1097", "U+1098", "U+1099", "U+17E0", "U+17E1", "U+17E2", "U+17E3",
    "U+17E4", "U+17E5", "U+17E6", "U+17E7", "U+17E8", "U+17E9", "U+1810", "U+1811", "U+1812",
    "U+1813", "U+1814", "U+1815", "U+1816", "U+1817", "U+1818", "U+1819", "U+1946", "U+1947",
    "U+1948", "U+1949", "U+194A", "U+194B", "U+194C", "U+194D", "U+194E", "U+194F", "U+19D0",
    "U+19D1", "U+19D2", "U+19D3", "U+19D4", "U+19D5", "U+19D6", "U+19D7", "U+19D8", "U+19D9",
    "U+1A80", "U+1A81", "U+1A82", "U+1A83", "U+1A84", "U+1A85", "U+1A86", "U+1A87", "U+1A88",
    "U+1A89", "U+1A90", "U+1A91", "U+1A92", "U+1A93", "U+1A94", "U+1A95", "U+1A96", "U+1A97",
    "U+1A98", "U+1A99", "U+1B50", "U+1B51", "U+1B52", "U+1B53", "U+1B54", "U+1B55", "U+1B56",
    "U+1B57", "U+1B58", "U+1B59", "U+1BB0", "U+1BB1", "U+1BB2", "U+1BB3", "U+1BB4", "U+1BB5",
    "U+1BB6", "U+1BB7", "U+1BB8", "U+1BB9", "U+1C40", "U+1C41", "U+1C42", "U+1C43", "U+1C44",
    "U+1C45", "U+1C46", "U+1C47", "U+1C48", "U+1C49", "U+1C50", "U+1C51", "U+1C52", "U+1C53",
    "U+1C54", "U+1C55", "U+1C56", "U+1C57", "U+1C58", "U+1C59", "U+A620", "U+A621", "U+A622",
    "U+A623", "U+A624", "U+A625", "U+A626", "U+A627", "U+A628", "U+A629", "U+A8D0", "U+A8D1",
    "U+A8D2", "U+A8D3", "U+A8D4", "U+A8D5", "U+A8D6", "U+A8D7", "U+A8D8", "U+A8D9", "U+A900",
    "U+A901", "U+A902", "U+A903", "U+A904", "U+A905", "U+A906", "U+A907", "U+A908", "U+A909",
    "U+A9D0", "U+A9D1", "U+A9D2", "U+A9D3", "U+A9D4", "U+A9D5", "U+A9D6", "U+A9D7", "U+A9D8",
    "U+A9D9", "U+A9F0", "U+A9F1", "U+A9F2", "U+A9F3", "U+A9F4", "U+A9F5", "U+A9F6", "U+A9F7",
    "U+A9F8", "U+A9F9", "U+AA50", "U+AA51", "U+AA52", "U+AA53", "U+AA54", "U+AA55", "U+AA56",
    "U+AA57", "U+AA58", "U+AA59", "U+ABF0", "U+ABF1", "U+ABF2", "U+ABF3", "U+ABF4", "U+ABF5",
    "U+ABF6", "U+ABF7", "U+ABF8", "U+ABF9", "U+FF10", "U+FF11", "U+FF12", "U+FF13", "U+FF14",
    "U+FF15", "U+FF16", "U+FF17", "U+FF18", "U+FF19", "U+104A0", "U+104A1", "U+104A2",
    "U+104A3", "U+104A4", "U+104A5", "U+104A6", "U+104A7", "U+104A8", "U+104A9", "U+10D30",
    "U+10D31", "U+10D32", "U+10D33", "U+10D34", "U+10D35", "U+10D36", "U+10D37", "U+10D38",
    "U+10D39", "U+11066", "U+11067", "U+11068", "U+11069", "U+1106A", "U+1106B", "U+1106C",
    "U+1106D", "U+1106E", "U+1106F", "U+110F0", "U+110F1", "U+110F2", "U+110F3", "U+110F4",
    "U+110F5", "U+110F6", "U+110F7", "U+110F8", "U+110F9", "U+11136", "U+11137", "U+11138",
    "U+11139", "U+1113A", "U+1113B", "U+1113C", "U+1113D", "U+1113E", "U+1113F", "U+111D0",
    "U+111D1", "U+111D2", "U+111D3", "U+111D4", "U+111D5", "U+111D6", "U+111D7", "U+111D8",
    "U+111D9", "U+112F0", "U+112F1", "U+112F2", "U+112F3", "U+112F4", "U+112F5", "U+112F6",
    "U+112F7", "U+112F8", "U+112F9", "U+11450", "U+11451", "U+11452", "U+11453", "U+11454",
    "U+11455", "U+11456", "U+11457", "U+11458", "U+11459", "U+114D0", "U+114D1", "U+114D2",
    "U+114D3", "U+114D4", "U+114D5", "U+114D6", "U+114D7", "U+114D8", "U+114D9", "U+11650",
    "U+11651", "U+11652", "U+11653", "U+11654", "U+11655", "U+11656", "U+11657", "U+11658",
    "U+11659", "U+116C0", "U+116C1", "U+116C2", "U+116C3", "U+116C4", "U+116C5", "U+116C6",
    "U+116C7", "U+116C8", "U+116C9", "U+11730", "U+11731", "U+11732", "U+11733", "U+11734",
    "U+11735", "U+11736", "U+11737", "U+11738", "U+11739", "U+118E0", "U+118E1", "U+118E2",
    "U+118E3", "U+118E4", "U+118E5", "U+118E6", "U+118E7", "U+118E8", "U+118E9", "U+11950",
    "U+11951", "U+11952", "U+11953", "U+11954", "U+11955", "U+11956", "U+11957", "U+11958",
    "U+11959", "U+11C50", "U+11C51", "U+11C52", "U+11C53", "U+11C54", "U+11C55", "U+11C56",
    "U+11C57", "U+11C58", "U+11C59", "U+11D50", "U+11D51", "U+11D52", "U+11D53", "U+11D54",
    "U+11D55", "U+11D56", "U+11D57", "U+11D58", "U+11D59", "U+11DA0", "U+11DA1", "U+11DA2",
    "U+11DA3", "U+11DA4", "U+11DA5", "U+11DA6", "U+11DA7", "U+11DA8", "U+11DA9", "U+16A60",
    "U+16A61", "U+16A62", "U+16A63", "U+16A64", "U+16A65", "U+16A66", "U+16A67", "U+16A68",
    "U+16A69", "U+16AC0", "U+16AC1", "U+16AC2", "U+16AC3", "U+16AC4", "U+16AC5", "U+16AC6",
    "U+16AC7", "U+16AC8", "U+16AC9", "U+16B50", "U+16B51", "U+16B52", "U+16B53", "U+16B54",
    "U+16B55", "U+16B56", "U+16B57", "U+16B58", "U+16B59", "U+1D7CE", "U+1D7CF", "U+1D7D0",
    "U+1D7D1", "U+1D7D2", "U+1D7D3", "U+1D7D4", "U+1D7D5", "U+1D7D6", "U+1D7D7", "U+1D7D8",
    "U+1D7D9", "U+1D7DA", "U+1D7DB", "U+1D7DC", "U+1D7DD", "U+1D7DE", "U+1D7DF", "U+1D7E0",
    "U+1D7E1", "U+1D7E2", "U+1D7E3", "U+1D7E4", "U+1D7E5", "U+1D7E6", "U+1D7E7", "U+1D7E8",
    "U+1D7E9", "U+1D7EA", "U+1D7EB", "U+1D7EC", "U+1D7ED", "U+1D7EE", "U+1D7EF", "U+1D7F0",
    "U+1D7F1", "U+1D7F2", "U+1D7F3", "U+1D7F4", "U+1D7F5", "U+1D7F6", "U+1D7F7", "U+1D7F8",
    "U+1D7F9", "U+1D7FA", "U+1D7FB", "U+1D7FC", "U+1D7FD", "U+1D7FE", "U+1D7FF", "U+1E140",
    "U+1E141", "U+1E142", "U+1E143", "U+1E144", "U+1E145", "U+1E146", "U+1E147", "U+1E148",
    "U+1E149", "U+1E2F0", "U+1E2F1", "U+1E2F2", "U+1E2F3", "U+1E2F4", "U+1E2F5", "U+1E2F6",
    "U+1E2F7", "U+1E2F8", "U+1E2F9", "U+1E950", "U+1E951", "U+1E952", "U+1E953", "U+1E954",
    "U+1E955", "U+1E956", "U+1E957", "U+1E958", "U+1E959", "U+1FBF0", "U+1FBF1", "U+1FBF2",
    "U+1FBF3", "U+1FBF4", "U+1FBF5", "U+1FBF6", "U+1FBF7", "U+1FBF8", "U+1FBF9"
  >>

DigitSet == {DigitChars[i] : i \in 1..Len(DigitChars)}

\* \d
IsDigit(c) == c \in DigitSet

DigitIndex == [c \in DigitSet |-> CHOOSE i \in 1..Len(DigitChars) : DigitChars[i] = c]

\* int(c), which is what float() reads c as
DigitVal(c) == (DigitIndex[c] - 1) % 10

\* the characters str.isdigit() takes and \d does not: superscripts, circled digits ...
OtherDigitChars ==
  {
    "U+00B2", "U+00B3", "U+00B9", "U+1369", "U+136A", "U+136B", "U+136C", "U+136D", "U+136E",
    "U+136F", "U+1370", "U+1371", "U+19DA", "U+2070", "U+2074", "U+2075", "U+2076", "U+2077",
    "U+2078", "U+2079", "U+2080", "U+2081", "U+2082", "U+2083", "U+2084", "U+2085", "U+2086",
    "U+2087", "U+2088", "U+2089", "U+2460", "U+2461", "U+2462", "U+2463", "U+2464", "U+2465",
    "U+2466", "U+2467", "U+2468", "U+2474", "U+2475", "U+2476", "U+2477", "U+2478", "U+2479",
    "U+247A", "U+247B", "U+247C", "U+2488", "U+2489", "U+248A", "U+248B", "U+248C", "U+248D",
    "U+248E", "U+248F", "U+2490", "U+24EA", "U+24F5", "U+24F6", "U+24F7", "U+24F8", "U+24F9",
    "U+24FA", "U+24FB", "U+24FC", "U+24FD", "U+24FF", "U+2776", "U+2777", "U+2778", "U+2779",
    "U+277A", "U+277B", "U+277C", "U+277D", "U+277E", "U+2780", "U+2781", "U+2782", "U+2783",
    "U+2784", "U+2785", "U+2786", "U+2787", "U+2788", "U+278A", "U+278B", "U+278C", "U+278D",
    "U+278E", "U+278F", "U+2790", "U+2791", "U+2792", "U+10A40", "U+10A41", "U+10A42",
    "U+10A43", "U+10E60", "U+10E61", "U+10E62", "U+10E63", "U+10E64", "U+10E65", "U+10E66",
    "U+10E67", "U+10E68", "U+11052", "U+11053", "U+11054", "U+11055", "U+11056", "U+11057",
    "U+11058", "U+11059", "U+1105A", "U+1F100", "U+1F101", "U+1F102", "U+1F103", "U+1F104",
    "U+1F105", "U+1F106", "U+1F107", "U+1F108", "U+1F109", "U+1F10A"
  }

\* str.isdigit()
StrIsDigit(c) == c \in DigitSet \/ c \in OtherDigitChars

\* the characters \s matches and str.strip() / str.split() remove: str.isspace()
Whitespace ==
  {
    "\t", "\n", "U+000B", "\f", "\r", "U+001C", "U+001D", "U+001E", "U+001F", " ", "U+0085",
    "U+00A0", "U+1680", "U+2000", "U+2001", "U+2002", "U+2003", "U+2004", "U+2005", "U+2006",
    "U+2007", "U+2008", "U+2009", "U+200A", "U+2028", "U+2029", "U+202F", "U+205F", "U+3000",
    "U+000C"
  }

IsSpace(c) == c \in Whitespace

\* the line boundaries of str.splitlines()
LineBreaks ==
  {
    "\n", "U+000B", "\f", "\r", "U+001C", "U+001D", "U+001E", "U+0085", "U+2028", "U+2029",
    "U+000C"
  }

IsLineBreak(c) == c \in LineBreaks

\* the characters str.lower() changes, in code point order
UpperChars ==
  <<
    "A", "B", "C", "D", "E", "F", "G", "H", "I", "J", "K", "L", "M", "N", "O", "P", "Q", "R",
    "S", "T", "U", "V", "W", "X", "Y", "Z", "U+00C0", "U+00C1", "U+00C2", "U+00C3", "U+00C4",
    "U+00C5", "U+00C6", "U+00C7", "U+00C8", "U+00C9", "U+00CA", "U+00CB", "U+00CC", "U+00CD",
    "U+00CE", "U+00CF", "U+00D0", "U+00D1", "U+00D2", "U+00D3", "U+00D4", "U+00D5", "U+00D6",
    "U+00D8", "U+00D9", "U+00DA", "U+00DB", "U+00DC", "U+00DD", "U+00DE", "U+0100", "U+0102",
    "U+0104", "U+0106", "U+0108", "U+010A", "U+010C", "U+010E", "U+0110", "U+0112", "U+0114",
    "U+0116", "U+0118", "U+011A", "U+011C", "U+011E", "U+0120", "U+0122", "U+0124", "U+0126",
    "U+0128", "U+012A", "U+012C", "U+012E", "U+0130", "U+0132", "U+0134", "U+0136", "U+0139",
    "U+013B", "U+013D", "U+013F", "U+0141", "U+0143", "U+0145", "U+0147", "U+014A", "U+014C",
    "U+014E", "U+0150", "U+0152", "U+0154", "U+0156", "U+0158", "U+015A", "U+015C", "U+015E",
    "U+0160", "U+0162", "U+0164", "U+0166", "U+0168", "U+016A", "U+016C", "U+016E", "U+0170",
    "U+0172", "U+0174", "U+0176", "U+0178", "U+0179", "U+017B", "U+017D", "U+0181", "U+0182",
    "U+0184", "U+0186", "U+0187", "U+0189", "U+018A", "U+018B", "U+018E", "U+018F", "U+0190",
    "U+0191", "U+0193", "U+0194", "U+0196", "U+0197", "U+0198", "U+019C", "U+019D", "U+019F",
    "U+01A0", "U+01A2", "U+01A4", "U+01A6", "U+01A7", "U+01A9", "U+01AC", "U+01AE", "U+01AF",
    "U+01B1", "U+01B2", "U+01B3", "U+01B5", "U+01B7", "U+01B8", "U+01BC", "U+01C4", "U+01C5",
    "U+01C7", "U+01C8", "U+01CA", "U+01CB", "U+01CD", "U+01CF", "U+01D1", "U+01D3", "U+01D5",
    "U+01D7", "U+01D9", "U+01DB", "U+01DE", "U+01E0", "U+01E2", "U+01E4", "U+01E6", "U+01E8",
    "U+01EA", "U+01EC", "U+01EE", "U+01F1", "U+01F2", "U+01F4", "U+01F6", "U+01F7", "U+01F8",
    "U+01FA", "U+01FC", "U+01FE", "U+0200", "U+0202", "U+0204", "U+0206", "U+0208", "U+020A",
    "U+020C", "U+020E", "U+0210", "U+0212", "U+0214", "U+0216", "U+0218", "U+021A", "U+021C",
    "U+021E", "U+0220", "U+0222", "U+0224", "U+0226", "U+0228", "U+022A", "U+022C", "U+022E",
    "U+0230", "U+0232", "U+023A", "U+023B", "U+023D", "U+023E", "U+0241", "U+0243", "U+0244",
    "U+0245", "U+0246", "U+0248", "U+024A", "U+024C", "U+024E", "U+0370", "U+0372", "U+0376",
    "U+037F", "U+0386", "U+0388", "U+0389", "U+038A", "U+038C", "U+038E", "U+038F", "U+0391",
    "U+0392", "U+0393", "U+0394", "U+0395", "U+0396", "U+0397", "U+0398", "U+0399", "U+039A",
    "U+039B", "U+039C", "U+039D", "U+039E", "U+039F", "U+03A0", "U+03A1", "U+03A3", "U+03A4",
    "U+03A5", "U+03A6", "U+03A7", "U+03A8", "U+03A9", "U+03AA", "U+03AB", "U+03CF", "U+03D8",
    "U+03DA", "U+03DC", "U+03DE", "U+03E0", "U+03E2", "U+03E4", "U+03E6", "U+03E8", "U+03EA",
    "U+03EC", "U+03EE", "U+03F4", "U+03F7", "U+03F9", "U+03FA", "U+03FD", "U+03FE", "U+03FF",
    "U+0400", "U+0401", "U+0402", "U+0403", "U+0404", "U+0405", "U+0406", "U+0407", "U+0408",
    "U+0409", "U+040A", "U+040B", "U+040C", "U+040D", "U+040E", "U+040F", "U+0410", "U+0411",
    "U+0412", "U+0413", "U+0414", "U+0415", "U+0416", "U+0417", "U+0418", "U+0419", "U+041A",
    "U+041B", "U+041C", "U+041D", "U+041E", "U+041F", "U+0420", "U+0421", "U+0422", "U+0423",
    "U+0424", "U+0425", "U+0426", "U+0427", "U+0428", "U+0429", "U+042A", "U+042B", "U+042C",
    "U+042D", "U+042E", "U+042F", "U+0460", "U+0462", "U+0464", "U+0466", "U+0468", "U+046A",
    "U+046C", "U+046E", "U+0470", "U+0472", "U+0474", "U+0476", "U+0478", "U+047A", "U+047C",
    "U+047E", "U+0480", "U+048A", "U+048C", "U+048E", "U+0490", "U+0492", "U+0494", "U+0496",
    "U+0498", "U+049A", "U+049C", "U+049E", "U+04A0", "U+04A2", "U+04A4", "U+04A6", "U+04A8",
    "U+04AA", "U+04AC", "U+04AE", "U+04B0", "U+04B2", "U+04B4", "U+04B6", "U+04B8", "U+04BA",
    "U+04BC", "U+04BE", "U+04C0", "U+04C1", "U+04C3", "U+04C5", "U+04C7", "U+04C9", "U+04CB",
    "U+04CD", "U+04D0", "U+04D2", "U+04D4", "U+04D6", "U+04D8", "U+04DA", "U+04DC", "U+04DE",
    "U+04E0", "U+04E2", "U+04E4", "U+04E6", "U+04E8", "U+04EA", "U+04EC", "U+04EE", "U+04F0",
    "U+04F2", "U+04F4", "U+04F6", "U+04F8", "U+04FA", "U+04FC", "U+04FE", "U+0500", "U+0502",
    "U+0504", "U+0506", "U+0508", "U+050A", "U+050C", "U+050E", "U+0510", "U+0512", "U+0514",
    "U+0516", "U+0518", "U+051A", "U+051C", "U+051E", "U+0520", "U+0522", "U+0524", "U+0526",
    "U+0528", "U+052A", "U+052C", "U+052E", "U+0531", "U+0532", "U+0533", "U+0534", "U+0535",
    "U+0536", "U+0537", "U+0538", "U+0539", "U+053A", "U+053B", "U+053C", "U+053D", "U+053E",
    "U+053F", "U+0540", "U+0541", "U+0542", "U+0543", "U+0544", "U+0545", "U+0546", "U+0547",
    "U+0548", "U+0549", "U+054A", "U+054B", "U+054C", "U+054D", "U+054E", "U+054F", "U+0550",
    "U+0551", "U+0552", "U+0553", "U+0554", "U+0555", "U+0556", "U+10A0", "U+10A1", "U+10A2",
    "U+10A3", "U+10A4", "U+10A5", "U+10A6", "U+10A7", "U+10A8", "U+10A9", "U+10AA", "U+10AB",
    "U+10AC", "U+10AD", "U+10AE", "U+10AF", "U+10B0", "U+10B1", "U+10B2", "U+10B3", "U+10B4",
    "U+10B5", "U+10B6", "U+10B7", "U+10B8", "U+10B9", "U+10BA", "U+10BB", "U+10BC", "U+10BD",
    "U+10BE", "U+10BF", "U+10C0", "U+10C1", "U+10C2", "U+10C3", "U+10C4", "U+10C5", "U+10C7",
    "U+10CD", "U+13A0", "U+13A1", "U+13A2", "U+13A3", "U+13A4", "U+13A5", "U+13A6", "U+13A7",
    "U+13A8", "U+13A9", "U+13AA", "U+13AB", "U+13AC", "U+13AD", "U+13AE", "U+13AF", "U+13B0",
    "U+13B1", "U+13B2", "U+13B3", "U+13B4", "U+13B5", "U+13B6", "U+13B7", "U+13B8", "U+13B9",
    "U+13BA", "U+13BB", "U+13BC", "U+13BD", "U+13BE", "U+13BF", "U+13C0", "U+13C1", "U+13C2",
    "U+13C3", "U+13C4", "U+13C5", "U+13C6", "U+13C7", "U+13C8", "U+13C9", "U+13CA", "U+13CB",
    "U+13CC", "U+13CD", "U+13CE", "U+13CF", "U+13D0", "U+13D1", "U+13D2", "U+13D3", "U+13D4",
    "U+13D5", "U+13D6", "U+13D7", "U+13D8", "U+13D9", "U+13DA", "U+13DB", "U+13DC", "U+13DD",
    "U+13DE", "U+13DF", "U+13E0", "U+13E1", "U+13E2", "U+13E3", "U+13E4", "U+13E5", "U+13E6",
    "U+13E7", "U+13E8", "U+13E9", "U+13EA", "U+13EB", "U+13EC", "U+13ED", "U+13EE", "U+13EF",
    "U+13F0", "U+13F1", "U+13F2", "U+13F3", "U+13F4", "U+13F5", "U+1C90", "U+1C91", "U+1C92",
    "U+1C93", "U+1C94", "U+1C95", "U+1C96", "U+1C97", "U+1C98", "U+1C99", "U+1C9A", "U+1C9B",
    "U+1C9C", "U+1C9D", "U+1C9E", "U+1C9F", "U+1CA0", "U+1CA1", "U+1CA2", "U+1CA3", "U+1CA4",
    "U+1CA5", "U+1CA6", "U+1CA7", "U+1CA8", "U+1CA9", "U+1CAA", "U+1CAB", "U+1CAC", "U+1CAD",
    "U+1CAE", "U+1CAF", "U+1CB0", "U+1CB1", "U+1CB2", "U+1CB3", "U+1CB4", "U+1CB5", "U+1CB6",
    "U+1CB7", "U+1CB8", "U+1CB9", "U+1CBA", "U+1CBD", "U+1CBE", "U+1CBF", "U+1E00", "U+1E02",
    "U+1E04", "U+1E06", "U+1E08", "U+1E0A", "U+1E0C", "U+1E0E", "U+1E10", "U+1E12", "U+1E14",
    "U+1E16", "U+1E18", "U+1E1A", "U+1E1C", "U+1E1E", "U+1E20", "U+1E22", "U+1E24", "U+1E26",
    "U+1E28", "U+1E2A", "U+1E2C", "U+1E2E", "U+1E30", "U+1E32", "U+1E34", "U+1E36", "U+1E38",
    "U+1E3A", "U+1E3C", "U+1E3E", "U+1E40", "U+1E42", "U+1E44", "U+1E46", "U+1E48", "U+1E4A",
    "U+1E4C", "U+1E4E", "U+1E50", "U+1E52", "U+1E54", "U+1E56", "U+1E58", "U+1E5A", "U+1E5C",
    "U+1E5E", "U+1E60", "U+1E62", "U+1E64", "U+1E66", "U+1E68", "U+1E6A", "U+1E6C", "U+1E6E",
    "U+1E70", "U+1E72", "U+1E74", "U+1E76", "U+1E78", "U+1E7A", "U+1E7C", "U+1E7E", "U+1E80",
    "U+1E82", "U+1E84", "U+1E86", "U+1E88", "U+1E8A", "U+1E8C", "U+1E8E", "U+1E90", "U+1E92",
    "U+1E94", "U+1E9E", "U+1EA0", "U+1EA2", "U+1EA4", "U+1EA6", "U+1EA8", "U+1EAA", "U+1EAC",
    "U+1EAE", "U+1EB0", "U+1EB2", "U+1EB4", "U+1EB6", "U+1EB8", "U+1EBA", "U+1EBC", "U+1EBE",
    "U+1EC0", "U+1EC2", "U+1EC4", "U+1EC6", "U+1EC8", "U+1ECA", "U+1ECC", "U+1ECE", "U+1ED0",
    "U+1ED2", "U+1ED4", "U+1ED6", "U+1ED8", "U+1EDA", "U+1EDC", "U+1EDE", "U+1EE0", "U+1EE2",
    "U+1EE4", "U+1EE6", "U+1EE8", "U+1EEA", "U+1EEC", "U+1EEE", "U+1EF0", "U+1EF2", "U+1EF4",
    "U+1EF6", "U+1EF8", "U+1EFA", "U+1EFC", "U+1EFE", "U+1F08", "U+1F09", "U+1F0A", "U+1F0B",
    "U+1F0C", "U+1F0D", "U+1F0E", "U+1F0F", "U+1F18", "U+1F19", "U+1F1A", "U+1F1B", "U+1F1C",
    "U+1F1D", "U+1F28", "U+1F29", "U+1F2A", "U+1F2B", "U+1F2C", "U+1F2D", "U+1F2E", "U+1F2F",
    "U+1F38", "U+1F39", "U+1F3A", "U+1F3B", "U+1F3C", "U+1F3D", "U+1F3E", "U+1F3F", "U+1F48",
    "U+1F49", "U+1F4A", "U+1F4B", "U+1F4C", "U+1F4D", "U+1F59", "U+1F5B", "U+1F5D", "U+1F5F",
    "U+1F68", "U+1F69", "U+1F6A", "U+1F6B", "U+1F6C", "U+1F6D", "U+1F6E", "U+1F6F", "U+1F88",
    "U+1F89", "U+1F8A", "U+1F8B", "U+1F8C", "U+1F8D", "U+1F8E", "U+1F8F", "U+1F98", "U+1F99",
    "U+1F9A", "U+1F9B", "U+1F9C", "U+1F9D", "U+1F9E", "U+1F9F", "U+1FA8", "U+1FA9", "U+1FAA",
    "U+1FAB", "U+1FAC", "U+1FAD", "U+1FAE", "U+1FAF", "U+1FB8", "U+1FB9", "U+1FBA", "U+1FBB",
    "U+1FBC", "U+1FC8", "U+1FC9", "U+1FCA", "U+1FCB", "U+1FCC", "U+1FD8", "U+1FD9", "U+1FDA",
    "U+1FDB", "U+1FE8", "U+1FE9", "U+1FEA", "U+1FEB", "U+1FEC", "U+1FF8", "U+1FF9", "U+1FFA",
    "U+1FFB", "U+1FFC", "U+2126", "U+212A", "U+212B", "U+2132", "U+2160", "U+2161", "U+2162",
    "U+2163", "U+2164", "U+2165", "U+2166", "U+2167", "U+2168", "U+2169", "U+216A", "U+216B",
    "U+216C", "U+216D", "U+216E", "U+216F", "U+2183", "U+24B6", "U+24B7", "U+24B8", "U+24B9",
    "U+24BA", "U+24BB", "U+24BC", "U+24BD", "U+24BE", "U+24BF", "U+24C0", "U+24C1", "U+24C2",
    "U+24C3", "U+24C4", "U+24C5", "U+24C6", "U+24C7", "U+24C8", "U+24C9", "U+24CA", "U+24CB",
    "U+24CC", "U+24CD", "U+24CE", "U+24CF", "U+2C00", "U+2C01", "U+2C02", "U+2C03", "U+2C04",
    "U+2C05", "U+2C06", "U+2C07", "U+2C08", "U+2C09", "U+2C0A", "U+2C0B", "U+2C0C", "U+2C0D",
    "U+2C0E", "U+2C0F", "U+2C10", "U+2C11", "U+2C12", "U+2C13", "U+2C14", "U+2C15", "U+2C16",
    "U+2C17", "U+2C18", "U+2C19", "U+2C1A", "U+2C1B", "U+2C1C", "U+2C1D", "U+2C1E", "U+2C1F",
    "U+2C20", "U+2C21", "U+2C22", "U+2C23", "U+2C24", "U+2C25", "U+2C26", "U+2C27", "U+2C28",
    "U+2C29", "U+2C2A", "U+2C2B", "U+2C2C", "U+2C2D", "U+2C2E", "U+2C2F", "U+2C60", "U+2C62",
    "U+2C63", "U+2C64", "U+2C67", "U+2C69", "U+2C6B", "U+2C6D", "U+2C6E", "U+2C6F", "U+2C70",
    "U+2C72", "U+2C75", "U+2C7E", "U+2C7F", "U+2C80", "U+2C82", "U+2C84", "U+2C86", "U+2C88",
    "U+2C8A", "U+2C8C", "U+2C8E", "U+2C90", "U+2C92", "U+2C94", "U+2C96", "U+2C98", "U+2C9A",
    "U+2C9C", "U+2C9E", "U+2CA0", "U+2CA2", "U+2CA4", "U+2CA6", "U+2CA8", "U+2CAA", "U+2CAC",
    "U+2CAE", "U+2CB0", "U+2CB2", "U+2CB4", "U+2CB6", "U+2CB8", "U+2CBA", "U+2CBC", "U+2CBE",
    "U+2CC0", "U+2CC2", "U+2CC4", "U+2CC6", "U+2CC8", "U+2CCA", "U+2CCC", "U+2CCE", "U+2CD0",
    "U+2CD2", "U+2CD4", "U+2CD6", "U+2CD8", "U+2CDA", "U+2CDC", "U+2CDE", "U+2CE0", "U+2CE2",
    "U+2CEB", "U+2CED", "U+2CF2", "U+A640", "U+A642", "U+A644", "U+A646", "U+A648", "U+A64A",
    "U+A64C", "U+A64E", "U+A650", "U+A652", "U+A654", "U+A656", "U+A658", "U+A65A", "U+A65C",
    "U+A65E", "U+A660", "U+A662", "U+A664", "U+A666", "U+A668", "U+A66A", "U+A66C", "U+A680",
    "U+A682", "U+A684", "U+A686", "U+A688", "U+A68A", "U+A68C", "U+A68E", "U+A690", "U+A692",
    "U+A694", "U+A696", "U+A698", "U+A69A", "U+A722", "U+A724", "U+A726", "U+A728", "U+A72A",
    "U+A72C", "U+A72E", "U+A732", "U+A734", "U+A736", "U+A738", "U+A73A", "U+A73C", "U+A73E",
    "U+A740", "U+A742", "U+A744", "U+A746", "U+A748", "U+A74A", "U+A74C", "U+A74E", "U+A750",
    "U+A752", "U+A754", "U+A756", "U+A758", "U+A75A", "U+A75C", "U+A75E", "U+A760", "U+A762",
    "U+A764", "U+A766", "U+A768", "U+A76A", "U+A76C", "U+A76E", "U+A779", "U+A77B", "U+A77D",
    "U+A77E", "U+A780", "U+A782", "U+A784", "U+A786", "U+A78B", "U+A78D", "U+A790", "U+A792",
    "U+A796", "U+A798", "U+A79A", "U+A79C", "U+A79E", "U+A7A0", "U+A7A2", "U+A7A4", "U+A7A6",
    "U+A7A8", "U+A7AA", "U+A7AB", "U+A7AC", "U+A7AD", "U+A7AE", "U+A7B0", "U+A7B1", "U+A7B2",
    "U+A7B3", "U+A7B4", "U+A7B6", "U+A7B8", "U+A7BA", "U+A7BC", "U+A7BE", "U+A7C0", "U+A7C2",
    "U+A7C4", "U+A7C5", "U+A7C6", "U+A7C7", "U+A7C9", "U+A7D0", "U+A7D6", "U+A7D8", "U+A7F5",
    "U+FF21", "U+FF22", "U+FF23", "U+FF24", "U+FF25", "U+FF26", "U+FF27", "U+FF28", "U+FF29",
    "U+FF2A", "U+FF2B", "U+FF2C", "U+FF2D", "U+FF2E", "U+FF2F", "U+FF30", "U+FF31", "U+FF32",
    "U+FF33", "U+FF34", "U+FF35", "U+FF36", "U+FF37", "U+FF38", "U+FF39", "U+FF3A", "U+10400",
    "U+10401", "U+10402", "U+10403", "U+10404", "U+10405", "U+10406", "U+10407", "U+10408",
    "U+10409", "U+1040A", "U+1040B", "U+1040C", "U+1040D", "U+1040E", "U+1040F", "U+10410",
    "U+10411", "U+10412", "U+10413", "U+10414", "U+10415", "U+10416", "U+10417", "U+10418",
    "U+10419", "U+1041A", "U+1041B", "U+1041C", "U+1041D", "U+1041E", "U+1041F", "U+10420",
    "U+10421", "U+10422", "U+10423", "U+10424", "U+10425", "U+10426", "U+10427", "U+104B0",
    "U+104B1", "U+104B2", "U+104B3", "U+104B4", "U+104B5", "U+104B6", "U+104B7", "U+104B8",
    "U+104B9", "U+104BA", "U+104BB", "U+104BC", "U+104BD", "U+104BE", "U+104BF", "U+104C0",
    "U+104C1", "U+104C2", "U+104C3", "U+104C4", "U+104C5", "U+104C6", "U+104C7", "U+104C8",
    "U+104C9", "U+104CA", "U+104CB", "U+104CC", "U+104CD", "U+104CE", "U+104CF", "U+104D0",
    "U+104D1", "U+104D2", "U+104D3", "U+10570", "U+10571", "U+10572", "U+10573", "U+10574",
    "U+10575", "U+10576", "U+10577", "U+10578", "U+10579", "U+1057A", "U+1057C", "U+1057D",
    "U+1057E", "U+1057F", "U+10580", "U+10581", "U+10582", "U+10583", "U+10584", "U+10585",
    "U+10586", "U+10587", "U+10588", "U+10589", "U+1058A", "U+1058C", "U+1058D", "U+1058E",
    "U+1058F", "U+10590", "U+10591", "U+10592", "U+10594", "U+10595", "U+10C80", "U+10C81",
    "U+10C82", "U+10C83", "U+10C84", "U+10C85", "U+10C86", "U+10C87", "U+10C88", "U+10C89",
    "U+10C8A", "U+10C8B", "U+10C8C", "U+10C8D", "U+10C8E", "U+10C8F", "U+10C90", "U+10C91",
    "U+10C92", "U+10C93", "U+10C94", "U+10C95", "U+10C96", "U+10C97", "U+10C98", "U+10C99",
    "U+10C9A", "U+10C9B", "U+10C9C", "U+10C9D", "U+10C9E", "U+10C9F", "U+10CA0", "U+10CA1",
    "U+10CA2", "U+10CA3", "U+10CA4", "U+10CA5", "U+10CA6", "U+10CA7", "U+10CA8", "U+10CA9",
    "U+10CAA", "U+10CAB", "U+10CAC", "U+10CAD", "U+10CAE", "U+10CAF", "U+10CB0", "U+10CB1",
    "U+10CB2", "U+118A0", "U+118A1", "U+118A2", "U+118A3", "U+118A4", "U+118A5", "U+118A6",
    "U+118A7", "U+118A8", "U+118A9", "U+118AA", "U+118AB", "U+118AC", "U+118AD", "U+118AE",
    "U+118AF", "U+118B0", "U+118B1", "U+118B2", "U+118B3", "U+118B4", "U+118B5", "U+118B6",
    "U+118B7", "U+118B8", "U+118B9", "U+118BA", "U+118BB", "U+118BC", "U+118BD", "U+118BE",
    "U+118BF", "U+16E40", "U+16E41", "U+16E42", "U+16E43", "U+16E44", "U+16E45", "U+16E46",
    "U+16E47", "U+16E48", "U+16E49", "U+16E4A", "U+16E4B", "U+16E4C", "U+16E4D", "U+16E4E",
    "U+16E4F", "U+16E50", "U+16E51", "U+16E52", "U+16E53", "U+16E54", "U+16E55", "U+16E56",
    "U+16E57", "U+16E58", "U+16E59", "U+16E5A", "U+16E5B", "U+16E5C", "U+16E5D", "U+16E5E",
    "U+16E5F", "U+1E900", "U+1E901", "U+1E902", "U+1E903", "U+1E904", "U+1E905", "U+1E906",
    "U+1E907", "U+1E908", "U+1E909", "U+1E90A", "U+1E90B", "U+1E90C", "U+1E90D", "U+1E90E",
    "U+1E90F", "U+1E910", "U+1E911", "U+1E912", "U+1E913", "U+1E914", "U+1E915", "U+1E916",
    "U+1E917", "U+1E918", "U+1E919", "U+1E91A", "U+1E91B", "U+1E91C", "U+1E91D", "U+1E91E",
    "U+1E91F", "U+1E920", "U+1E921"
  >>

\* what str.lower() makes of each of them
LowerChars ==
  <<
    <<"a">>, <<"b">>, <<"c">>, <<"d">>, <<"e">>, <<"f">>, <<"g">>, <<"h">>, <<"i">>, <<"j">>,
    <<"k">>, <<"l">>, <<"m">>, <<"n">>, <<"o">>, <<"p">>, <<"q">>, <<"r">>, <<"s">>, <<"t">>,
    <<"u">>, <<"v">>, <<"w">>, <<"x">>, <<"y">>, <<"z">>, <<"U+00E0">>, <<"U+00E1">>,
    <<"U+00E2">>, <<"U+00E3">>, <<"U+00E4">>, <<"U+00E5">>, <<"U+00E6">>, <<"U+00E7">>,
    <<"U+00E8">>, <<"U+00E9">>, <<"U+00EA">>, <<"U+00EB">>, <<"U+00EC">>, <<"U+00ED">>,
    <<"U+00EE">>, <<"U+00EF">>, <<"U+00F0">>, <<"U+00F1">>, <<"U+00F2">>, <<"U+00F3">>,
    <<"U+00F4">>, <<"U+00F5">>, <<"U+00F6">>, <<"U+00F8">>, <<"U+00F9">>, <<"U+00FA">>,
    <<"U+00FB">>, <<"U+00FC">>, <<"U+00FD">>, <<"U+00FE">>, <<"U+0101">>, <<"U+0103">>,
    <<"U+0105">>, <<"U+0107">>, <<"U+0109">>, <<"U+010B">>, <<"U+010D">>, <<"U+010F">>,
    <<"U+0111">>, <<"U+0113">>, <<"U+0115">>, <<"U+0117">>, <<"U+0119">>, <<"U+011B">>,
    <<"U+011D">>, <<"U+011F">>, <<"U+0121">>, <<"U+0123">>, <<"U+0125">>, <<"U+0127">>,
    <<"U+0129">>, <<"U+012B">>, <<"U+012D">>, <<"U+012F">>, <<"i", "U+0307">>, <<"U+0133">>,
    <<"U+0135">>, <<"U+0137">>, <<"U+013A">>, <<"U+013C">>, <<"U+013E">>, <<"U+0140">>,
    <<"U+0142">>, <<"U+0144">>, <<"U+0146">>, <<"U+0148">>, <<"U+014B">>, <<"U+014D">>,
    <<"U+014F">>, <<"U+0151">>, <<"U+0153">>, <<"U+0155">>, <<"U+0157">>, <<"U+0159">>,
    <<"U+015B">>, <<"U+015D">>, <<"U+015F">>, <<"U+0161">>, <<"U+0163">>, <<"U+0165">>,
    <<"U+0167">>, <<"U+0169">>, <<"U+016B">>, <<"U+016D">>, <<"U+016F">>, <<"U+0171">>,
    <<"U+0173">>, <<"U+0175">>, <<"U+0177">>, <<"U+00FF">>, <<"U+017A">>, <<"U+017C">>,
    <<"U+017E">>, <<"U+0253">>, <<"U+0183">>, <<"U+0185">>, <<"U+0254">>, <<"U+0188">>,
    <<"U+0256">>, <<"U+0257">>, <<"U+018C">>, <<"U+01DD">>, <<"U+0259">>, <<"U+025B">>,
    <<"U+0192">>, <<"U+0260">>, <<"U+0263">>, <<"U+0269">>, <<"U+0268">>, <<"U+0199">>,
    <<"U+026F">>, <<"U+0272">>, <<"U+0275">>, <<"U+01A1">>, <<"U+01A3">>, <<"U+01A5">>,
    <<"U+0280">>, <<"U+01A8">>, <<"U+0283">>, <<"U+01AD">>, <<"U+0288">>, <<"U+01B0">>,
    <<"U+028A">>, <<"U+028B">>, <<"U+01B4">>, <<"U+01B6">>, <<"U+0292">>, <<"U+01B9">>,
    <<"U+01BD">>, <<"U+01C6">>, <<"U+01C6">>, <<"U+01C9">>, <<"U+01C9">>, <<"U+01CC">>,
    <<"U+01CC">>, <<"U+01CE">>, <<"U+01D0">>, <<"U+01D2">>, <<"U+01D4">>, <<"U+01D6">>,
    <<"U+01D8">>, <<"U+01DA">>, <<"U+01DC">>, <<"U+01DF">>, <<"U+01E1">>, <<"U+01E3">>,
    <<"U+01E5">>, <<"U+01E7">>, <<"U+01E9">>, <<"U+01EB">>, <<"U+01ED">>, <<"U+01EF">>,
    <<"U+01F3">>, <<"U+01F3">>, <<"U+01F5">>, <<"U+0195">>, <<"U+01BF">>, <<"U+01F9">>,
    <<"U+01FB">>, <<"U+01FD">>, <<"U+01FF">>, <<"U+0201">>, <<"U+0203">>, <<"U+0205">>,
    <<"U+0207">>, <<"U+0209">>, <<"U+020B">>, <<"U+020D">>, <<"U+020F">>, <<"U+0211">>,
    <<"U+0213">>, <<"U+0215">>, <<"U+0217">>, <<"U+0219">>, <<"U+021B">>, <<"U+021D">>,
    <<"U+021F">>, <<"U+019E">>, <<"U+0223">>, <<"U+0225">>, <<"U+0227">>, <<"U+0229">>,
    <<"U+022B">>, <<"U+022D">>, <<"U+022F">>, <<"U+0231">>, <<"U+0233">>, <<"U+2C65">>,
    <<"U+023C">>, <<"U+019A">>, <<"U+2C66">>, <<"U+0242">>, <<"U+0180">>, <<"U+0289">>,
    <<"U+028C">>, <<"U+0247">>, <<"U+0249">>, <<"U+024B">>, <<"U+024D">>, <<"U+024F">>,
    <<"U+0371">>, <<"U+0373">>, <<"U+0377">>, <<"U+03F3">>, <<"U+03AC">>, <<"U+03AD">>,
    <<"U+03AE">>, <<"U+03AF">>, <<"U+03CC">>, <<"U+03CD">>, <<"U+03CE">>, <<"U+03B1">>,
    <<"U+03B2">>, <<"U+03B3">>, <<"U+03B4">>, <<"U+03B5">>, <<"U+03B6">>, <<"U+03B7">>,
    <<"U+03B8">>, <<"U+03B9">>, <<"U+03BA">>, <<"U+03BB">>, <<"U+03BC">>, <<"U+03BD">>,
    <<"U+03BE">>, <<"U+03BF">>, <<"U+03C0">>, <<"U+03C1">>, <<"U+03C3">>, <<"U+03C4">>,
    <<"U+03C5">>, <<"U+03C6">>, <<"U+03C7">>, <<"U+03C8">>, <<"U+03C9">>, <<"U+03CA">>,
    <<"U+03CB">>, <<"U+03D7">>, <<"U+03D9">>, <<"U+03DB">>, <<"U+03DD">>, <<"U+03DF">>,
    <<"U+03E1">>, <<"U+03E3">>, <<"U+03E5">>, <<"U+03E7">>, <<"U+03E9">>, <<"U+03EB">>,
    <<"U+03ED">>, <<"U+03EF">>, <<"U+03B8">>, <<"U+03F8">>, <<"U+03F2">>, <<"U+03FB">>,
    <<"U+037B">>, <<"U+037C">>, <<"U+037D">>, <<"U+0450">>, <<"U+0451">>, <<"U+0452">>,
    <<"U+0453">>, <<"U+0454">>, <<"U+0455">>, <<"U+0456">>, <<"U+0457">>, <<"U+0458">>,
    <<"U+0459">>, <<"U+045A">>, <<"U+045B">>, <<"U+045C">>, <<"U+045D">>, <<"U+045E">>,
    <<"U+045F">>, <<"U+0430">>, <<"U+0431">>, <<"U+0432">>, <<"U+0433">>, <<"U+0434">>,
    <<"U+0435">>, <<"U+0436">>, <<"U+0437">>, <<"U+0438">>, <<"U+0439">>, <<"U+043A">>,
    <<"U+043B">>, <<"U+043C">>, <<"U+043D">>, <<"U+043E">>, <<"U+043F">>, <<"U+0440">>,
    <<"U+0441">>, <<"U+0442">>, <<"U+0443">>, <<"U+0444">>, <<"U+0445">>, <<"U+0446">>,
    <<"U+0447">>, <<"U+0448">>, <<"U+0449">>, <<"U+044A">>, <<"U+044B">>, <<"U+044C">>,
    <<"U+044D">>, <<"U+044E">>, <<"U+044F">>, <<"U+0461">>, <<"U+0463">>, <<"U+0465">>,
    <<"U+0467">>, <<"U+0469">>, <<"U+046B">>, <<"U+046D">>, <<"U+046F">>, <<"U+0471">>,
    <<"U+0473">>, <<"U+0475">>, <<"U+0477">>, <<"U+0479">>, <<"U+047B">>, <<"U+047D">>,
    <<"U+047F">>, <<"U+0481">>, <<"U+048B">>, <<"U+048D">>, <<"U+048F">>, <<"U+0491">>,
    <<"U+0493">>, <<"U+0495">>, <<"U+0497">>, <<"U+0499">>, <<"U+049B">>, <<"U+049D">>,
    <<"U+049F">>, <<"U+04A1">>, <<"U+04A3">>, <<"U+04A5">>, <<"U+04A7">>, <<"U+04A9">>,
    <<"U+04AB">>, <<"U+04AD">>, <<"U+04AF">>, <<"U+04B1">>, <<"U+04B3">>, <<"U+04B5">>,
    <<"U+04B7">>, <<"U+04B9">>, <<"U+04BB">>, <<"U+04BD">>, <<"U+04BF">>, <<"U+04CF">>,
    <<"U+04C2">>, <<"U+04C4">>, <<"U+04C6">>, <<"U+04C8">>, <<"U+04CA">>, <<"U+04CC">>,
    <<"U+04CE">>, <<"U+04D1">>, <<"U+04D3">>, <<"U+04D5">>, <<"U+04D7">>, <<"U+04D9">>,
    <<"U+04DB">>, <<"U+04DD">>, <<"U+04DF">>, <<"U+04E1">>, <<"U+04E3">>, <<"U+04E5">>,
    <<"U+04E7">>, <<"U+04E9">>, <<"U+04EB">>, <<"U+04ED">>, <<"U+04EF">>, <<"U+04F1">>,
    <<"U+04F3">>, <<"U+04F5">>, <<"U+04F7">>, <<"U+04F9">>, <<"U+04FB">>, <<"U+04FD">>,
    <<"U+04FF">>, <<"U+0501">>, <<"U+0503">>, <<"U+0505">>, <<"U+0507">>, <<"U+0509">>,
    <<"U+050B">>, <<"U+050D">>, <<"U+050F">>, <<"U+0511">>, <<"U+0513">>, <<"U+0515">>,
    <<"U+0517">>, <<"U+0519">>, <<"U+051B">>, <<"U+051D">>, <<"U+051F">>, <<"U+0521">>,
    <<"U+0523">>, <<"U+0525">>, <<"U+0527">>, <<"U+0529">>, <<"U+052B">>, <<"U+052D">>,
    <<"U+052F">>, <<"U+0561">>, <<"U+0562">>, <<"U+0563">>, <<"U+0564">>, <<"U+0565">>,
    <<"U+0566">>, <<"U+0567">>, <<"U+0568">>, <<"U+0569">>, <<"U+056A">>, <<"U+056B">>,
    <<"U+056C">>, <<"U+056D">>, <<"U+056E">>, <<"U+056F">>, <<"U+0570">>, <<"U+0571">>,
    <<"U+0572">>, <<"U+0573">>, <<"U+0574">>, <<"U+0575">>, <<"U+0576">>, <<"U+0577">>,
    <<"U+0578">>, <<"U+0579">>, <<"U+057A">>, <<"U+057B">>, <<"U+057C">>, <<"U+057D">>,
    <<"U+057E">>, <<"U+057F">>, <<"U+0580">>, <<"U+0581">>, <<"U+0582">>, <<"U+0583">>,
    <<"U+0584">>, <<"U+0585">>, <<"U+0586">>, <<"U+2D00">>, <<"U+2D01">>, <<"U+2D02">>,
    <<"U+2D03">>, <<"U+2D04">>, <<"U+2D05">>, <<"U+2D06">>, <<"U+2D07">>, <<"U+2D08">>,
    <<"U+2D09">>, <<"U+2D0A">>, <<"U+2D0B">>, <<"U+2D0C">>, <<"U+2D0D">>, <<"U+2D0E">>,
    <<"U+2D0F">>, <<"U+2D10">>, <<"U+2D11">>, <<"U+2D12">>, <<"U+2D13">>, <<"U+2D14">>,
    <<"U+2D15">>, <<"U+2D16">>, <<"U+2D17">>, <<"U+2D18">>, <<"U+2D19">>, <<"U+2D1A">>,
    <<"U+2D1B">>, <<"U+2D1C">>, <<"U+2D1D">>, <<"U+2D1E">>, <<"U+2D1F">>, <<"U+2D20">>,
    <<"U+2D21">>, <<"U+2D22">>, <<"U+2D23">>, <<"U+2D24">>, <<"U+2D25">>, <<"U+2D27">>,
    <<"U+2D2D">>, <<"U+AB70">>, <<"U+AB71">>, <<"U+AB72">>, <<"U+AB73">>, <<"U+AB74">>,
    <<"U+AB75">>, <<"U+AB76">>, <<"U+AB77">>, <<"U+AB78">>, <<"U+AB79">>, <<"U+AB7A">>,
    <<"U+AB7B">>, <<"U+AB7C">>, <<"U+AB7D">>, <<"U+AB7E">>, <<"U+AB7F">>, <<"U+AB80">>,
    <<"U+AB81">>, <<"U+AB82">>, <<"U+AB83">>, <<"U+AB84">>, <<"U+AB85">>, <<"U+AB86">>,
    <<"U+AB87">>, <<"U+AB88">>, <<"U+AB89">>, <<"U+AB8A">>, <<"U+AB8B">>, <<"U+AB8C">>,
    <<"U+AB8D">>, <<"U+AB8E">>, <<"U+AB8F">>, <<"U+AB90">>, <<"U+AB91">>, <<"U+AB92">>,
    <<"U+AB93">>, <<"U+AB94">>, <<"U+AB95">>, <<"U+AB96">>, <<"U+AB97">>, <<"U+AB98">>,
    <<"U+AB99">>, <<"U+AB9A">>, <<"U+AB9B">>, <<"U+AB9C">>, <<"U+AB9D">>, <<"U+AB9E">>,
    <<"U+AB9F">>, <<"U+ABA0">>, <<"U+ABA1">>, <<"U+ABA2">>, <<"U+ABA3">>, <<"U+ABA4">>,
    <<"U+ABA5">>, <<"U+ABA6">>, <<"U+ABA7">>, <<"U+ABA8">>, <<"U+ABA9">>, <<"U+ABAA">>,
    <<"U+ABAB">>, <<"U+ABAC">>, <<"U+ABAD">>, <<"U+ABAE">>, <<"U+ABAF">>, <<"U+ABB0">>,
    <<"U+ABB1">>, <<"U+ABB2">>, <<"U+ABB3">>, <<"U+ABB4">>, <<"U+ABB5">>, <<"U+ABB6">>,
    <<"U+ABB7">>, <<"U+ABB8">>, <<"U+ABB9">>, <<"U+ABBA">>, <<"U+ABBB">>, <<"U+ABBC">>,
    <<"U+ABBD">>, <<"U+ABBE">>, <<"U+ABBF">>, <<"U+13F8">>, <<"U+13F9">>, <<"U+13FA">>,
    <<"U+13FB">>, <<"U+13FC">>, <<"U+13FD">>, <<"U+10D0">>, <<"U+10D1">>, <<"U+10D2">>,
    <<"U+10D3">>, <<"U+10D4">>, <<"U+10D5">>, <<"U+10D6">>, <<"U+10D7">>, <<"U+10D8">>,
    <<"U+10D9">>, <<"U+10DA">>, <<"U+10DB">>, <<"U+10DC">>, <<"U+10DD">>, <<"U+10DE">>,
    <<"U+10DF">>, <<"U+10E0">>, <<"U+10E1">>, <<"U+10E2">>, <<"U+10E3">>, <<"U+10E4">>,
    <<"U+10E5">>, <<"U+10E6">>, <<"U+10E7">>, <<"U+10E8">>, <<"U+10E9">>, <<"U+10EA">>,
    <<"U+10EB">>, <<"U+10EC">>, <<"U+10ED">>, <<"U+10EE">>, <<"U+10EF">>, <<"U+10F0">>,
    <<"U+10F1">>, <<"U+10F2">>, <<"U+10F3">>, <<"U+10F4">>, <<"U+10F5">>, <<"U+10F6">>,
    <<"U+10F7">>, <<"U+10F8">>, <<"U+10F9">>, <<"U+10FA">>, <<"U+10FD">>, <<"U+10FE">>,
    <<"U+10FF">>, <<"U+1E01">>, <<"U+1E03">>, <<"U+1E05">>, <<"U+1E07">>, <<"U+1E09">>,
    <<"U+1E0B">>, <<"U+1E0D">>, <<"U+1E0F">>, <<"U+1E11">>, <<"U+1E13">>, <<"U+1E15">>,
    <<"U+1E17">>, <<"U+1E19">>, <<"U+1E1B">>, <<"U+1E1D">>, <<"U+1E1F">>, <<"U+1E21">>,
    <<"U+1E23">>, <<"U+1E25">>, <<"U+1E27">>, <<"U+1E29">>, <<"U+1E2B">>, <<"U+1E2D">>,
    <<"U+1E2F">>, <<"U+1E31">>, <<"U+1E33">>, <<"U+1E35">>, <<"U+1E37">>, <<"U+1E39">>,
    <<"U+1E3B">>, <<"U+1E3D">>, <<"U+1E3F">>, <<"U+1E41">>, <<"U+1E43">>, <<"U+1E45">>,
    <<"U+1E47">>, <<"U+1E49">>, <<"U+1E4B">>, <<"U+1E4D">>, <<"U+1E4F">>, <<"U+1E51">>,
    <<"U+1E53">>, <<"U+1E55">>, <<"U+1E57">>, <<"U+1E59">>, <<"U+1E5B">>, <<"U+1E5D">>,
    <<"U+1E5F">>, <<"U+1E61">>, <<"U+1E63">>, <<"U+1E65">>, <<"U+1E67">>, <<"U+1E69">>,
    <<"U+1E6B">>, <<"U+1E6D">>, <<"U+1E6F">>, <<"U+1E71">>, <<"U+1E73">>, <<"U+1E75">>,
    <<"U+1E77">>, <<"U+1E79">>, <<"U+1E7B">>, <<"U+1E7D">>, <<"U+1E7F">>, <<"U+1E81">>,
    <<"U+1E83">>, <<"U+1E85">>, <<"U+1E87">>, <<"U+1E89">>, <<"U+1E8B">>, <<"U+1E8D">>,
    <<"U+1E8F">>, <<"U+1E91">>, <<"U+1E93">>, <<"U+1E95">>, <<"U+00DF">>, <<"U+1EA1">>,
    <<"U+1EA3">>, <<"U+1EA5">>, <<"U+1EA7">>, <<"U+1EA9">>, <<"U+1EAB">>, <<"U+1EAD">>,
    <<"U+1EAF">>, <<"U+1EB1">>, <<"U+1EB3">>, <<"U+1EB5">>, <<"U+1EB7">>, <<"U+1EB9">>,
    <<"U+1EBB">>, <<"U+1EBD">>, <<"U+1EBF">>, <<"U+1EC1">>, <<"U+1EC3">>, <<"U+1EC5">>,
    <<"U+1EC7">>, <<"U+1EC9">>, <<"U+1ECB">>, <<"U+1ECD">>, <<"U+1ECF">>, <<"U+1ED1">>,
    <<"U+1ED3">>, <<"U+1ED5">>, <<"U+1ED7">>, <<"U+1ED9">>, <<"U+1EDB">>, <<"U+1EDD">>,
    <<"U+1EDF">>, <<"U+1EE1">>, <<"U+1EE3">>, <<"U+1EE5">>, <<"U+1EE7">>, <<"U+1EE9">>,
    <<"U+1EEB">>, <<"U+1EED">>, <<"U+1EEF">>, <<"U+1EF1">>, <<"U+1EF3">>, <<"U+1EF5">>,
    <<"U+1EF7">>, <<"U+1EF9">>, <<"U+1EFB">>, <<"U+1EFD">>, <<"U+1EFF">>, <<"U+1F00">>,
    <<"U+1F01">>, <<"U+1F02">>, <<"U+1F03">>, <<"U+1F04">>, <<"U+1F05">>, <<"U+1F06">>,
    <<"U+1F07">>, <<"U+1F10">>, <<"U+1F11">>, <<"U+1F12">>, <<"U+1F13">>, <<"U+1F14">>,
    <<"U+1F15">>, <<"U+1F20">>, <<"U+1F21">>, <<"U+1F22">>, <<"U+1F23">>, <<"U+1F24">>,
    <<"U+1F25">>, <<"U+1F26">>, <<"U+1F27">>, <<"U+1F30">>, <<"U+1F31">>, <<"U+1F32">>,
    <<"U+1F33">>, <<"U+1F34">>, <<"U+1F35">>, <<"U+1F36">>, <<"U+1F37">>, <<"U+1F40">>,
    <<"U+1F41">>, <<"U+1F42">>, <<"U+1F43">>, <<"U+1F44">>, <<"U+1F45">>, <<"U+1F51">>,
    <<"U+1F53">>, <<"U+1F55">>, <<"U+1F57">>, <<"U+1F60">>, <<"U+1F61">>, <<"U+1F62">>,
    <<"U+1F63">>, <<"U+1F64">>, <<"U+1F65">>, <<"U+1F66">>, <<"U+1F67">>, <<"U+1F80">>,
    <<"U+1F81">>, <<"U+1F82">>, <<"U+1F83">>, <<"U+1F84">>, <<"U+1F85">>, <<"U+1F86">>,
    <<"U+1F87">>, <<"U+1F90">>, <<"U+1F91">>, <<"U+1F92">>, <<"U+1F93">>, <<"U+1F94">>,
    <<"U+1F95">>, <<"U+1F96">>, <<"U+1F97">>, <<"U+1FA0">>, <<"U+1FA1">>, <<"U+1FA2">>,
    <<"U+1FA3">>, <<"U+1FA4">>, <<"U+1FA5">>, <<"U+1FA6">>, <<"U+1FA7">>, <<"U+1FB0">>,
    <<"U+1FB1">>, <<"U+1F70">>, <<"U+1F71">>, <<"U+1FB3">>, <<"U+1F72">>, <<"U+1F73">>,
    <<"U+1F74">>, <<"U+1F75">>, <<"U+1FC3">>, <<"U+1FD0">>, <<"U+1FD1">>, <<"U+1F76">>,
    <<"U+1F77">>, <<"U+1FE0">>, <<"U+1FE1">>, <<"U+1F7A">>, <<"U+1F7B">>, <<"U+1FE5">>,
    <<"U+1F78">>, <<"U+1F79">>, <<"U+1F7C">>, <<"U+1F7D">>, <<"U+1FF3">>, <<"U+03C9">>,
    <<"k">>, <<"U+00E5">>, <<"U+214E">>, <<"U+2170">>, <<"U+2171">>, <<"U+2172">>,
    <<"U+2173">>, <<"U+2174">>, <<"U+2175">>, <<"U+2176">>, <<"U+2177">>, <<"U+2178">>,
    <<"U+2179">>, <<"U+217A">>, <<"U+217B">>, <<"U+217C">>, <<"U+217D">>, <<"U+217E">>,
    <<"U+217F">>, <<"U+2184">>, <<"U+24D0">>, <<"U+24D1">>, <<"U+24D2">>, <<"U+24D3">>,
    <<"U+24D4">>, <<"U+24D5">>, <<"U+24D6">>, <<"U+24D7">>, <<"U+24D8">>, <<"U+24D9">>,
    <<"U+24DA">>, <<"U+24DB">>, <<"U+24DC">>, <<"U+24DD">>, <<"U+24DE">>, <<"U+24DF">>,
    <<"U+24E0">>, <<"U+24E1">>, <<"U+24E2">>, <<"U+24E3">>, <<"U+24E4">>, <<"U+24E5">>,
    <<"U+24E6">>, <<"U+24E7">>, <<"U+24E8">>, <<"U+24E9">>, <<"U+2C30">>, <<"U+2C31">>,
    <<"U+2C32">>, <<"U+2C33">>, <<"U+2C34">>, <<"U+2C35">>, <<"U+2C36">>, <<"U+2C37">>,
    <<"U+2C38">>, <<"U+2C39">>, <<"U+2C3A">>, <<"U+2C3B">>, <<"U+2C3C">>, <<"U+2C3D">>,
    <<"U+2C3E">>, <<"U+2C3F">>, <<"U+2C40">>, <<"U+2C41">>, <<"U+2C42">>, <<"U+2C43">>,
    <<"U+2C44">>, <<"U+2C45">>, <<"U+2C46">>, <<"U+2C47">>, <<"U+2C48">>, <<"U+2C49">>,
    <<"U+2C4A">>, <<"U+2C4B">>, <<"U+2C4C">>, <<"U+2C4D">>, <<"U+2C4E">>, <<"U+2C4F">>,
    <<"U+2C50">>, <<"U+2C51">>, <<"U+2C52">>, <<"U+2C53">>, <<"U+2C54">>, <<"U+2C55">>,
    <<"U+2C56">>, <<"U+2C57">>, <<"U+2C58">>, <<"U+2C59">>, <<"U+2C5A">>, <<"U+2C5B">>,
    <<"U+2C5C">>, <<"U+2C5D">>, <<"U+2C5E">>, <<"U+2C5F">>, <<"U+2C61">>, <<"U+026B">>,
    <<"U+1D7D">>, <<"U+027D">>, <<"U+2C68">>, <<"U+2C6A">>, <<"U+2C6C">>, <<"U+0251">>,
    <<"U+0271">>, <<"U+0250">>, <<"U+0252">>, <<"U+2C73">>, <<"U+2C76">>, <<"U+023F">>,
    <<"U+0240">>, <<"U+2C81">>, <<"U+2C83">>, <<"U+2C85">>, <<"U+2C87">>, <<"U+2C89">>,
    <<"U+2C8B">>, <<"U+2C8D">>, <<"U+2C8F">>, <<"U+2C91">>, <<"U+2C93">>, <<"U+2C95">>,
    <<"U+2C97">>, <<"U+2C99">>, <<"U+2C9B">>, <<"U+2C9D">>, <<"U+2C9F">>, <<"U+2CA1">>,
    <<"U+2CA3">>, <<"U+2CA5">>, <<"U+2CA7">>, <<"U+2CA9">>, <<"U+2CAB">>, <<"U+2CAD">>,
    <<"U+2CAF">>, <<"U+2CB1">>, <<"U+2CB3">>, <<"U+2CB5">>, <<"U+2CB7">>, <<"U+2CB9">>,
    <<"U+2CBB">>, <<"U+2CBD">>, <<"U+2CBF">>, <<"U+2CC1">>, <<"U+2CC3">>, <<"U+2CC5">>,
    <<"U+2CC7">>, <<"U+2CC9">>, <<"U+2CCB">>, <<"U+2CCD">>, <<"U+2CCF">>, <<"U+2CD1">>,
    <<"U+2CD3">>, <<"U+2CD5">>, <<"U+2CD7">>, <<"U+2CD9">>, <<"U+2CDB">>, <<"U+2CDD">>,
    <<"U+2CDF">>, <<"U+2CE1">>, <<"U+2CE3">>, <<"U+2CEC">>, <<"U+2CEE">>, <<"U+2CF3">>,
    <<"U+A641">>, <<"U+A643">>, <<"U+A645">>, <<"U+A647">>, <<"U+A649">>, <<"U+A64B">>,
    <<"U+A64D">>, <<"U+A64F">>, <<"U+A651">>, <<"U+A653">>, <<"U+A655">>, <<"U+A657">>,
    <<"U+A659">>, <<"U+A65B">>, <<"U+A65D">>, <<"U+A65F">>, <<"U+A661">>, <<"U+A663">>,
    <<"U+A665">>, <<"U+A667">>, <<"U+A669">>, <<"U+A66B">>, <<"U+A66D">>, <<"U+A681">>,
    <<"U+A683">>, <<"U+A685">>, <<"U+A687">>, <<"U+A689">>, <<"U+A68B">>, <<"U+A68D">>,
    <<"U+A68F">>, <<"U+A691">>, <<"U+A693">>, <<"U+A695">>, <<"U+A697">>, <<"U+A699">>,
    <<"U+A69B">>, <<"U+A723">>, <<"U+A725">>, <<"U+A727">>, <<"U+A729">>, <<"U+A72B">>,
    <<"U+A72D">>, <<"U+A72F">>, <<"U+A733">>, <<"U+A735">>, <<"U+A737">>, <<"U+A739">>,
    <<"U+A73B">>, <<"U+A73D">>, <<"U+A73F">>, <<"U+A741">>, <<"U+A743">>, <<"U+A745">>,
    <<"U+A747">>, <<"U+A749">>, <<"U+A74B">>, <<"U+A74D">>, <<"U+A74F">>, <<"U+A751">>,
    <<"U+A753">>, <<"U+A755">>, <<"U+A757">>, <<"U+A759">>, <<"U+A75B">>, <<"U+A75D">>,
    <<"U+A75F">>, <<"U+A761">>, <<"U+A763">>, <<"U+A765">>, <<"U+A767">>, <<"U+A769">>,
    <<"U+A76B">>, <<"U+A76D">>, <<"U+A76F">>, <<"U+A77A">>, <<"U+A77C">>, <<"U+1D79">>,
    <<"U+A77F">>, <<"U+A781">>, <<"U+A783">>, <<"U+A785">>, <<"U+A787">>, <<"U+A78C">>,
    <<"U+0265">>, <<"U+A791">>, <<"U+A793">>, <<"U+A797">>, <<"U+A799">>, <<"U+A79B">>,
    <<"U+A79D">>, <<"U+A79F">>, <<"U+A7A1">>, <<"U+A7A3">>, <<"U+A7A5">>, <<"U+A7A7">>,
    <<"U+A7A9">>, <<"U+0266">>, <<"U+025C">>, <<"U+0261">>, <<"U+026C">>, <<"U+026A">>,
    <<"U+029E">>, <<"U+0287">>, <<"U+029D">>, <<"U+AB53">>, <<"U+A7B5">>, <<"U+A7B7">>,
    <<"U+A7B9">>, <<"U+A7BB">>, <<"U+A7BD">>, <<"U+A7BF">>, <<"U+A7C1">>, <<"U+A7C3">>,
    <<"U+A794">>, <<"U+0282">>, <<"U+1D8E">>, <<"U+A7C8">>, <<"U+A7CA">>, <<"U+A7D1">>,
    <<"U+A7D7">>, <<"U+A7D9">>, <<"U+A7F6">>, <<"U+FF41">>, <<"U+FF42">>, <<"U+FF43">>,
    <<"U+FF44">>, <<"U+FF45">>, <<"U+FF46">>, <<"U+FF47">>, <<"U+FF48">>, <<"U+FF49">>,
    <<"U+FF4A">>, <<"U+FF4B">>, <<"U+FF4C">>, <<"U+FF4D">>, <<"U+FF4E">>, <<"U+FF4F">>,
    <<"U+FF50">>, <<"U+FF51">>, <<"U+FF52">>, <<"U+FF53">>, <<"U+FF54">>, <<"U+FF55">>,
    <<"U+FF56">>, <<"U+FF57">>, <<"U+FF58">>, <<"U+FF59">>, <<"U+FF5A">>, <<"U+10428">>,
    <<"U+10429">>, <<"U+1042A">>, <<"U+1042B">>, <<"U+1042C">>, <<"U+1042D">>, <<"U+1042E">>,
    <<"U+1042F">>, <<"U+10430">>, <<"U+10431">>, <<"U+10432">>, <<"U+10433">>, <<"U+10434">>,
    <<"U+10435">>, <<"U+10436">>, <<"U+10437">>, <<"U+10438">>, <<"U+10439">>, <<"U+1043A">>,
    <<"U+1043B">>, <<"U+1043C">>, <<"U+1043D">>, <<"U+1043E">>, <<"U+1043F">>, <<"U+10440">>,
    <<"U+10441">>, <<"U+10442">>, <<"U+10443">>, <<"U+10444">>, <<"U+10445">>, <<"U+10446">>,
    <<"U+10447">>, <<"U+10448">>, <<"U+10449">>, <<"U+1044A">>, <<"U+1044B">>, <<"U+1044C">>,
    <<"U+1044D">>, <<"U+1044E">>, <<"U+1044F">>, <<"U+104D8">>, <<"U+104D9">>, <<"U+104DA">>,
    <<"U+104DB">>, <<"U+104DC">>, <<"U+104DD">>, <<"U+104DE">>, <<"U+104DF">>, <<"U+104E0">>,
    <<"U+104E1">>, <<"U+104E2">>, <<"U+104E3">>, <<"U+104E4">>, <<"U+104E5">>, <<"U+104E6">>,
    <<"U+104E7">>, <<"U+104E8">>, <<"U+104E9">>, <<"U+104EA">>, <<"U+104EB">>, <<"U+104EC">>,
    <<"U+104ED">>, <<"U+104EE">>, <<"U+104EF">>, <<"U+104F0">>, <<"U+104F1">>, <<"U+104F2">>,
    <<"U+104F3">>, <<"U+104F4">>, <<"U+104F5">>, <<"U+104F6">>, <<"U+104F7">>, <<"U+104F8">>,
    <<"U+104F9">>, <<"U+104FA">>, <<"U+104FB">>, <<"U+10597">>, <<"U+10598">>, <<"U+10599">>,
    <<"U+1059A">>, <<"U+1059B">>, <<"U+1059C">>, <<"U+1059D">>, <<"U+1059E">>, <<"U+1059F">>,
    <<"U+105A0">>, <<"U+105A1">>, <<"U+105A3">>, <<"U+105A4">>, <<"U+105A5">>, <<"U+105A6">>,
    <<"U+105A7">>, <<"U+105A8">>, <<"U+105A9">>, <<"U+105AA">>, <<"U+105AB">>, <<"U+105AC">>,
    <<"U+105AD">>, <<"U+105AE">>, <<"U+105AF">>, <<"U+105B0">>, <<"U+105B1">>, <<"U+105B3">>,
    <<"U+105B4">>, <<"U+105B5">>, <<"U+105B6">>, <<"U+105B7">>, <<"U+105B8">>, <<"U+105B9">>,
    <<"U+105BB">>, <<"U+105BC">>, <<"U+10CC0">>, <<"U+10CC1">>, <<"U+10CC2">>, <<"U+10CC3">>,
    <<"U+10CC4">>, <<"U+10CC5">>, <<"U+10CC6">>, <<"U+10CC7">>, <<"U+10CC8">>, <<"U+10CC9">>,
    <<"U+10CCA">>, <<"U+10CCB">>, <<"U+10CCC">>, <<"U+10CCD">>, <<"U+10CCE">>, <<"U+10CCF">>,
    <<"U+10CD0">>, <<"U+10CD1">>, <<"U+10CD2">>, <<"U+10CD3">>, <<"U+10CD4">>, <<"U+10CD5">>,
    <<"U+10CD6">>, <<"U+10CD7">>, <<"U+10CD8">>, <<"U+10CD9">>, <<"U+10CDA">>, <<"U+10CDB">>,
    <<"U+10CDC">>, <<"U+10CDD">>, <<"U+10CDE">>, <<"U+10CDF">>, <<"U+10CE0">>, <<"U+10CE1">>,
    <<"U+10CE2">>, <<"U+10CE3">>, <<"U+10CE4">>, <<"U+10CE5">>, <<"U+10CE6">>, <<"U+10CE7">>,
    <<"U+10CE8">>, <<"U+10CE9">>, <<"U+10CEA">>, <<"U+10CEB">>, <<"U+10CEC">>, <<"U+10CED">>,
    <<"U+10CEE">>, <<"U+10CEF">>, <<"U+10CF0">>, <<"U+10CF1">>, <<"U+10CF2">>, <<"U+118C0">>,
    <<"U+118C1">>, <<"U+118C2">>, <<"U+118C3">>, <<"U+118C4">>, <<"U+118C5">>, <<"U+118C6">>,
    <<"U+118C7">>, <<"U+118C8">>, <<"U+118C9">>, <<"U+118CA">>, <<"U+118CB">>, <<"U+118CC">>,
    <<"U+118CD">>, <<"U+118CE">>, <<"U+118CF">>, <<"U+118D0">>, <<"U+118D1">>, <<"U+118D2">>,
    <<"U+118D3">>, <<"U+118D4">>, <<"U+118D5">>, <<"U+118D6">>, <<"U+118D7">>, <<"U+118D8">>,
    <<"U+118D9">>, <<"U+118DA">>, <<"U+118DB">>, <<"U+118DC">>, <<"U+118DD">>, <<"U+118DE">>,
    <<"U+118DF">>, <<"U+16E60">>, <<"U+16E61">>, <<"U+16E62">>, <<"U+16E63">>, <<"U+16E64">>,
    <<"U+16E65">>, <<"U+16E66">>, <<"U+16E67">>, <<"U+16E68">>, <<"U+16E69">>, <<"U+16E6A">>,
    <<"U+16E6B">>, <<"U+16E6C">>, <<"U+16E6D">>, <<"U+16E6E">>, <<"U+16E6F">>, <<"U+16E70">>,
    <<"U+16E71">>, <<"U+16E72">>, <<"U+16E73">>, <<"U+16E74">>, <<"U+16E75">>, <<"U+16E76">>,
    <<"U+16E77">>, <<"U+16E78">>, <<"U+16E79">>, <<"U+16E7A">>, <<"U+16E7B">>, <<"U+16E7C">>,
    <<"U+16E7D">>, <<"U+16E7E">>, <<"U+16E7F">>, <<"U+1E922">>, <<"U+1E923">>, <<"U+1E924">>,
    <<"U+1E925">>, <<"U+1E926">>, <<"U+1E927">>, <<"U+1E928">>, <<"U+1E929">>, <<"U+1E92A">>,
    <<"U+1E92B">>, <<"U+1E92C">>, <<"U+1E92D">>, <<"U+1E92E">>, <<"U+1E92F">>, <<"U+1E930">>,
    <<"U+1E931">>, <<"U+1E932">>, <<"U+1E933">>, <<"U+1E934">>, <<"U+1E935">>, <<"U+1E936">>,
    <<"U+1E937">>, <<"U+1E938">>, <<"U+1E939">>, <<"U+1E93A">>, <<"U+1E93B">>, <<"U+1E93C">>,
    <<"U+1E93D">>, <<"U+1E93E">>, <<"U+1E93F">>, <<"U+1E940">>, <<"U+1E941">>, <<"U+1E942">>,
    <<"U+1E943">>
  >>

UpperSet == {UpperChars[i] : i \in 1..Len(UpperChars)}

LowerOf == [c \in UpperSet |-> LowerChars[CHOOSE i \in 1..Len(UpperChars) : UpperChars[i] = c]]

\* str.lower() on a string of one character
LowerChar(c) == IF c \in UpperSet THEN LowerOf[c] ELSE <<c>>

(* str.lower() turns the capital sigma U+03A3 into the final sigma U+03C2  *)
(* when a cased character stands before it and none after it, the          *)
(* case-ignorable characters between them skipped.  CasedChars are the     *)
(* cased characters that are not case-ignorable.                           *)
CasedChars ==
  {
    "A", "B", "C", "D", "E", "F", "G", "H", "I", "J", "K", "L", "M", "N", "O", "P", "Q", "R",
    "S", "T", "U", "V", "W", "X", "Y", "Z", "a", "b", "c", "d", "e", "f", "g", "h", "i", "j",
    "k", "l", "m", "n", "o", "p", "q", "r", "s", "t", "u", "v", "w", "x", "y", "z", "U+00AA",
    "U+00B5", "U+00BA", "U+00C0", "U+00C1", "U+00C2", "U+00C3", "U+00C4", "U+00C5", "U+00C6",
    "U+00C7", "U+00C8", "U+00C9", "U+00CA", "U+00CB", "U+00CC", "U+00CD", "U+00CE", "U+00CF",
    "U+00D0", "U+00D1", "U+00D2", "U+00D3", "U+00D4", "U+00D5", "U+00D6", "U+00D8", "U+00D9",
    "U+00DA", "U+00DB", "U+00DC", "U+00DD", "U+00DE", "U+00DF", "U+00E0", "U+00E1", "U+00E2",
    "U+00E3", "U+00E4", "U+00E5", "U+00E6", "U+00E7", "U+00E8", "U+00E9", "U+00EA", "U+00EB",
    "U+00EC", "U+00ED", "U+00EE", "U+00EF", "U+00F0", "U+00F1", "U+00F2", "U+00F3", "U+00F4",
    "U+00F5", "U+00F6", "U+00F8", "U+00F9", "U+00FA", "U+00FB", "U+00FC", "U+00FD", "U+00FE",
    "U+00FF", "U+0100", "U+0101", "U+0102", "U+0103", "U+0104", "U+0105", "U+0106", "U+0107",
    "U+0108", "U+0109", "U+010A", "U+010B", "U+010C", "U+010D", "U+010E", "U+010F", "U+0110",
    "U+0111", "U+0112", "U+0113", "U+0114", "U+0115", "U+0116", "U+0117", "U+0118", "U+0119",
    "U+011A", "U+011B", "U+011C", "U+011D", "U+011E", "U+011F", "U+0120", "U+0121", "U+0122",
    "U+0123", "U+0124", "U+0125", "U+0126", "U+0127", "U+0128", "U+0129", "U+012A", "U+012B",
    "U+012C", "U+012D", "U+012E", "U+012F", "U+0130", "U+0131", "U+0132", "U+0133", "U+0134",
    "U+0135", "U+0136", "U+0137", "U+0138", "U+0139", "U+013A", "U+013B", "U+013C", "U+013D",
    "U+013E", "U+013F", "U+0140", "U+0141", "U+0142", "U+0143", "U+0144", "U+0145", "U+0146",
    "U+0147", "U+0148", "U+0149", "U+014A", "U+014B", "U+014C", "U+014D", "U+014E", "U+014F",
    "U+0150", "U+0151", "U+0152", "U+0153", "U+0154", "U+0155", "U+0156", "U+0157", "U+0158",
    "U+0159", "U+015A", "U+015B", "U+015C", "U+015D", "U+015E", "U+015F", "U+0160", "U+0161",
    "U+0162", "U+0163", "U+0164", "U+0165", "U+0166", "U+0167", "U+0168", "U+0169", "U+016A",
    "U+016B", "U+016C", "U+016D", "U+016E", "U+016F", "U+0170", "U+0171", "U+0172", "U+0173",
    "U+0174", "U+0175", "U+0176", "U+0177", "U+0178", "U+0179", "U+017A", "U+017B", "U+017C",
    "U+017D", "U+017E", "U+017F", "U+0180", "U+0181", "U+0182", "U+0183", "U+0184", "U+0185",
    "U+0186", "U+0187", "U+0188", "U+0189", "U+018A", "U+018B", "U+018C", "U+018D", "U+018E",
    "U+018F", "U+0190", "U+0191", "U+0192", "U+0193", "U+0194", "U+0195", "U+0196", "U+0197",
    "U+0198", "U+0199", "U+019A", "U+019B", "U+019C", "U+019D", "U+019E", "U+019F", "U+01A0",
    "U+01A1", "U+01A2", "U+01A3", "U+01A4", "U+01A5", "U+01A6", "U+01A7", "U+01A8", "U+01A9",
    "U+01AA", "U+01AB", "U+01AC", "U+01AD", "U+01AE", "U+01AF", "U+01B0", "U+01B1", "U+01B2",
    "U+01B3", "U+01B4", "U+01B5", "U+01B6", "U+01B7", "U+01B8", "U+01B9", "U+01BA", "U+01BC",
    "U+01BD", "U+01BE", "U+01BF", "U+01C4", "U+01C5", "U+01C6", "U+01C7", "U+01C8", "U+01C9",
    "U+01CA", "U+01CB", "U+01CC", "U+01CD", "U+01CE", "U+01CF", "U+01D0", "U+01D1", "U+01D2",
    "U+01D3", "U+01D4", "U+01D5", "U+01D6", "U+01D7", "U+01D8", "U+01D9", "U+01DA", "U+01DB",
    "U+01DC", "U+01DD", "U+01DE", "U+01DF", "U+01E0", "U+01E1", "U+01E2", "U+01E3", "U+01E4",
    "U+01E5", "U+01E6", "U+01E7", "U+01E8", "U+01E9", "U+01EA", "U+01EB", "U+01EC", "U+01ED",
    "U+01EE", "U+01EF", "U+01F0", "U+01F1", "U+01F2", "U+01F3", "U+01F4", "U+01F5", "U+01F6",
    "U+01F7", "U+01F8", "U+01F9", "U+01FA", "U+01FB", "U+01FC", "U+01FD", "U+01FE", "U+01FF",
    "U+0200", "U+0201", "U+0202", "U+0203", "U+0204", "U+0205", "U+0206", "U+0207", "U+0208",
    "U+0209", "U+020A", "U+020B", "U+020C", "U+020D", "U+020E", "U+020F", "U+0210", "U+0211",
    "U+0212", "U+0213", "U+0214", "U+0215", "U+0216", "U+0217", "U+0218", "U+0219", "U+021A",
    "U+021B", "U+021C", "U+021D", "U+021E", "U+021F", "U+0220", "U+0221", "U+0222", "U+0223",
    "U+0224", "U+0225", "U+0226", "U+0227", "U+0228", "U+0229", "U+022A", "U+022B", "U+022C",
    "U+022D", "U+022E", "U+022F", "U+0230", "U+0231", "U+0232", "U+0233", "U+0234", "U+0235",
    "U+0236", "U+0237", "U+0238", "U+0239", "U+023A", "U+023B", "U+023C", "U+023D", "U+023E",
    "U+023F", "U+0240", "U+0241", "U+0242", "U+0243", "U+0244", "U+0245", "U+0246", "U+0247",
    "U+0248", "U+0249", "U+024A", "U+024B", "U+024C", "U+024D", "U+024E", "U+024F", "U+0250",
    "U+0251", "U+0252", "U+0253", "U+0254", "U+0255", "U+0256", "U+0257", "U+0258", "U+0259",
    "U+025A", "U+025B", "U+025C", "U+025D", "U+025E", "U+025F", "U+0260", "U+0261", "U+0262",
    "U+0263", "U+0264", "U+0265", "U+0266", "U+0267", "U+0268", "U+0269", "U+026A", "U+026B",
    "U+026C", "U+026D", "U+026E", "U+026F", "U+0270", "U+0271", "U+0272", "U+0273", "U+0274",
    "U+0275", "U+0276", "U+0277", "U+0278", "U+0279", "U+027A", "U+027B", "U+027C", "U+027D",
    "U+027E", "U+027F", "U+0280", "U+0281", "U+0282", "U+0283", "U+0284", "U+0285", "U+0286",
    "U+0287", "U+0288", "U+0289", "U+028A", "U+028B", "U+028C", "U+028D", "U+028E", "U+028F",
    "U+0290", "U+0291", "U+0292", "U+0293", "U+0295", "U+0296", "U+0297", "U+0298", "U+0299",
    "U+029A", "U+029B", "U+029C", "U+029D", "U+029E", "U+029F", "U+02A0", "U+02A1", "U+02A2",
    "U+02A3", "U+02A4", "U+02A5", "U+02A6", "U+02A7", "U+02A8", "U+02A9", "U+02AA", "U+02AB",
    "U+02AC", "U+02AD", "U+02AE", "U+02AF", "U+0370", "U+0371", "U+0372", "U+0373", "U+0376",
    "U+0377", "U+037B", "U+037C", "U+037D", "U+037F", "U+0386", "U+0388", "U+0389", "U+038A",
    "U+038C", "U+038E", "U+038F", "U+0390", "U+0391", "U+0392", "U+0393", "U+0394", "U+0395",
    "U+0396", "U+0397", "U+0398", "U+0399", "U+039A", "U+039B", "U+039C", "U+039D", "U+039E",
    "U+039F", "U+03A0", "U+03A1", "U+03A3", "U+03A4", "U+03A5", "U+03A6", "U+03A7", "U+03A8",
    "U+03A9", "U+03AA", "U+03AB", "U+03AC", "U+03AD", "U+03AE", "U+03AF", "U+03B0", "U+03B1",
    "U+03B2", "U+03B3", "U+03B4", "U+03B5", "U+03B6", "U+03B7", "U+03B8", "U+03B9", "U+03BA",
    "U+03BB", "U+03BC", "U+03BD", "U+03BE", "U+03BF", "U+03C0", "U+03C1", "U+03C2", "U+03C3",
    "U+03C4", "U+03C5", "U+03C6", "U+03C7", "U+03C8", "U+03C9", "U+03CA", "U+03CB", "U+03CC",
    "U+03CD", "U+03CE", "U+03CF", "U+03D0", "U+03D1", "U+03D2", "U+03D3", "U+03D4", "U+03D5",
    "U+03D6", "U+03D7", "U+03D8", "U+03D9", "U+03DA", "U+03DB", "U+03DC", "U+03DD", "U+03DE",
    "U+03DF", "U+03E0", "U+03E1", "U+03E2", "U+03E3", "U+03E4", "U+03E5", "U+03E6", "U+03E7",
    "U+03E8", "U+03E9", "U+03EA", "U+03EB", "U+03EC", "U+03ED", "U+03EE", "U+03EF", "U+03F0",
    "U+03F1", "U+03F2", "U+03F3", "U+03F4", "U+03F5", "U+03F7", "U+03F8", "U+03F9", "U+03FA",
    "U+03FB", "U+03FC", "U+03FD", "U+03FE", "U+03FF", "U+0400", "U+0401", "U+0402", "U+0403",
    "U+0404", "U+0405", "U+0406", "U+0407", "U+0408", "U+0409", "U+040A", "U+040B", "U+040C",
    "U+040D", "U+040E", "U+040F", "U+0410", "U+0411", "U+0412", "U+0413", "U+0414", "U+0415",
    "U+0416", "U+0417", "U+0418", "U+0419", "U+041A", "U+041B", "U+041C", "U+041D", "U+041E",
    "U+041F", "U+0420", "U+0421", "U+0422", "U+0423", "U+0424", "U+0425", "U+0426", "U+0427",
    "U+0428", "U+0429", "U+042A", "U+042B", "U+042C", "U+042D", "U+042E", "U+042F", "U+0430",
    "U+0431", "U+0432", "U+0433", "U+0434", "U+0435", "U+0436", "U+0437", "U+0438", "U+0439",
    "U+043A", "U+043B", "U+043C", "U+043D", "U+043E", "U+043F", "U+0440", "U+0441", "U+0442",
    "U+0443", "U+0444", "U+0445", "U+0446", "U+0447", "U+0448", "U+0449", "U+044A", "U+044B",
    "U+044C", "U+044D", "U+044E", "U+044F", "U+0450", "U+0451", "U+0452", "U+0453", "U+0454",
    "U+0455", "U+0456", "U+0457", "U+0458", "U+0459", "U+045A", "U+045B", "U+045C", "U+045D",
    "U+045E", "U+045F", "U+0460", "U+0461", "U+0462", "U+0463", "U+0464", "U+0465", "U+0466",
    "U+0467", "U+0468", "U+0469", "U+046A", "U+046B", "U+046C", "U+046D", "U+046E", "U+046F",
    "U+0470", "U+0471", "U+0472", "U+0473", "U+0474", "U+0475", "U+0476", "U+0477", "U+0478",
    "U+0479", "U+047A", "U+047B", "U+047C", "U+047D", "U+047E", "U+047F", "U+0480", "U+0481",
    "U+048A", "U+048B", "U+048C", "U+048D", "U+048E", "U+048F", "U+0490", "U+0491", "U+0492",
    "U+0493", "U+0494", "U+0495", "U+0496", "U+0497", "U+0498", "U+0499", "U+049A", "U+049B",
    "U+049C", "U+049D", "U+049E", "U+049F", "U+04A0", "U+04A1", "U+04A2", "U+04A3", "U+04A4",
    "U+04A5", "U+04A6", "U+04A7", "U+04A8", "U+04A9", "U+04AA", "U+04AB", "U+04AC", "U+04AD",
    "U+04AE", "U+04AF", "U+04B0", "U+04B1", "U+04B2", "U+04B3", "U+04B4", "U+04B5", "U+04B6",
    "U+04B7", "U+04B8", "U+04B9", "U+04BA", "U+04BB", "U+04BC", "U+04BD", "U+04BE", "U+04BF",
    "U+04C0", "U+04C1", "U+04C2", "U+04C3", "U+04C4", "U+04C5", "U+04C6", "U+04C7", "U+04C8",
    "U+04C9", "U+04CA", "U+04CB", "U+04CC", "U+04CD", "U+04CE", "U+04CF", "U+04D0", "U+04D1",
    "U+04D2", "U+04D3", "U+04D4", "U+04D5", "U+04D6", "U+04D7", "U+04D8", "U+04D9", "U+04DA",
    "U+04DB", "U+04DC", "U+04DD", "U+04DE", "U+04DF", "U+04E0", "U+04E1", "U+04E2", "U+04E3",
    "U+04E4", "U+04E5", "U+04E6", "U+04E7", "U+04E8", "U+04E9", "U+04EA", "U+04EB", "U+04EC",
    "U+04ED", "U+04EE", "U+04EF", "U+04F0", "U+04F1", "U+04F2", "U+04F3", "U+04F4", "U+04F5",
    "U+04F6", "U+04F7", "U+04F8", "U+04F9", "U+04FA", "U+04FB", "U+04FC", "U+04FD", "U+04FE",
    "U+04FF", "U+0500", "U+0501", "U+0502", "U+0503", "U+0504", "U+0505", "U+0506", "U+0507",
    "U+0508", "U+0509", "U+050A", "U+050B", "U+050C", "U+050D", "U+050E", "U+050F", "U+0510",
    "U+0511", "U+0512", "U+0513", "U+0514", "U+0515", "U+0516", "U+0517", "U+0518", "U+0519",
    "U+051A", "U+051B", "U+051C", "U+051D", "U+051E", "U+051F", "U+0520", "U+0521", "U+0522",
    "U+0523", "U+0524", "U+0525", "U+0526", "U+0527", "U+0528", "U+0529", "U+052A", "U+052B",
    "U+052C", "U+052D", "U+052E", "U+052F", "U+0531", "U+0532", "U+0533", "U+0534", "U+0535",
    "U+0536", "U+0537", "U+0538", "U+0539", "U+053A", "U+053B", "U+053C", "U+053D", "U+053E",
    "U+053F", "U+0540", "U+0541", "U+0542", "U+0543", "U+0544", "U+0545", "U+0546", "U+0547",
    "U+0548", "U+0549", "U+054A", "U+054B", "U+054C", "U+054D", "U+054E", "U+054F", "U+0550",
    "U+0551", "U+0552", "U+0553", "U+0554", "U+0555", "U+0556", "U+0560", "U+0561", "U+0562",
    "U+0563", "U+0564", "U+0565", "U+0566", "U+0567", "U+0568", "U+0569", "U+056A", "U+056B",
    "U+056C", "U+056D", "U+056E", "U+056F", "U+0570", "U+0571", "U+0572", "U+0573", "U+0574",
    "U+0575", "U+0576", "U+0577", "U+0578", "U+0579", "U+057A", "U+057B", "U+057C", "U+057D",
    "U+057E", "U+057F", "U+0580", "U+0581", "U+0582", "U+0583", "U+0584", "U+0585", "U+0586",
    "U+0587", "U+0588", "U+10A0", "U+10A1", "U+10A2", "U+10A3", "U+10A4", "U+10A5", "U+10A6",
    "U+10A7", "U+10A8", "U+10A9", "U+10AA", "U+10AB", "U+10AC", "U+10AD", "U+10AE", "U+10AF",
    "U+10B0", "U+10B1", "U+10B2", "U+10B3", "U+10B4", "U+10B5", "U+10B6", "U+10B7", "U+10B8",
    "U+10B9", "U+10BA", "U+10BB", "U+10BC", "U+10BD", "U+10BE", "U+10BF", "U+10C0", "U+10C1",
    "U+10C2", "U+10C3", "U+10C4", "U+10C5", "U+10C7", "U+10CD", "U+10D0", "U+10D1", "U+10D2",
    "U+10D3", "U+10D4", "U+10D5", "U+10D6", "U+10D7", "U+10D8", "U+10D9", "U+10DA", "U+10DB",
    "U+10DC", "U+10DD", "U+10DE", "U+10DF", "U+10E0", "U+10E1", "U+10E2", "U+10E3", "U+10E4",
    "U+10E5", "U+10E6", "U+10E7", "U+10E8", "U+10E9", "U+10EA", "U+10EB", "U+10EC", "U+10ED",
    "U+10EE", "U+10EF", "U+10F0", "U+10F1", "U+10F2", "U+10F3", "U+10F4", "U+10F5", "U+10F6",
    "U+10F7", "U+10F8", "U+10F9", "U+10FA", "U+10FD", "U+10FE", "U+10FF", "U+13A0", "U+13A1",
    "U+13A2", "U+13A3", "U+13A4", "U+13A5", "U+13A6", "U+13A7", "U+13A8", "U+13A9", "U+13AA",
    "U+13AB", "U+13AC", "U+13AD", "U+13AE", "U+13AF", "U+13B0", "U+13B1", "U+13B2", "U+13B3",
    "U+13B4", "U+13B5", "U+13B6", "U+13B7", "U+13B8", "U+13B9", "U+13BA", "U+13BB", "U+13BC",
    "U+13BD", "U+13BE", "U+13BF", "U+13C0", "U+13C1", "U+13C2", "U+13C3", "U+13C4", "U+13C5",
    "U+13C6", "U+13C7", "U+13C8", "U+13C9", "U+13CA", "U+13CB", "U+13CC", "U+13CD", "U+13CE",
    "U+13CF", "U+13D0", "U+13D1", "U+13D2", "U+13D3", "U+13D4", "U+13D5", "U+13D6", "U+13D7",
    "U+13D8", "U+13D9", "U+13DA", "U+13DB", "U+13DC", "U+13DD", "U+13DE", "U+13DF", "U+13E0",
    "U+13E1", "U+13E2", "U+13E3", "U+13E4", "U+13E5", "U+13E6", "U+13E7", "U+13E8", "U+13E9",
    "U+13EA", "U+13EB", "U+13EC", "U+13ED", "U+13EE", "U+13EF", "U+13F0", "U+13F1", "U+13F2",
    "U+13F3", "U+13F4", "U+13F5", "U+13F8", "U+13F9", "U+13FA", "U+13FB", "U+13FC", "U+13FD",
    "U+1C80", "U+1C81", "U+1C82", "U+1C83", "U+1C84", "U+1C85", "U+1C86", "U+1C87", "U+1C88",
    "U+1C90", "U+1C91", "U+1C92", "U+1C93", "U+1C94", "U+1C95", "U+1C96", "U+1C97", "U+1C98",
    "U+1C99", "U+1C9A", "U+1C9B", "U+1C9C", "U+1C9D", "U+1C9E", "U+1C9F", "U+1CA0", "U+1CA1",
    "U+1CA2", "U+1CA3", "U+1CA4", "U+1CA5", "U+1CA6", "U+1CA7", "U+1CA8", "U+1CA9", "U+1CAA",
    "U+1CAB", "U+1CAC", "U+1CAD", "U+1CAE", "U+1CAF", "U+1CB0", "U+1CB1", "U+1CB2", "U+1CB3",
    "U+1CB4", "U+1CB5", "U+1CB6", "U+1CB7", "U+1CB8", "U+1CB9", "U+1CBA", "U+1CBD", "U+1CBE",
    "U+1CBF", "U+1D00", "U+1D01", "U+1D02", "U+1D03", "U+1D04", "U+1D05", "U+1D06", "U+1D07",
    "U+1D08", "U+1D09", "U+1D0A", "U+1D0B", "U+1D0C", "U+1D0D", "U+1D0E", "U+1D0F", "U+1D10",
    "U+1D11", "U+1D12", "U+1D13", "U+1D14", "U+1D15", "U+1D16", "U+1D17", "U+1D18", "U+1D19",
    "U+1D1A", "U+1D1B", "U+1D1C", "U+1D1D", "U+1D1E", "U+1D1F", "U+1D20", "U+1D21", "U+1D22",
    "U+1D23", "U+1D24", "U+1D25", "U+1D26", "U+1D27", "U+1D28", "U+1D29", "U+1D2A", "U+1D2B",
    "U+1D6B", "U+1D6C", "U+1D6D", "U+1D6E", "U+1D6F", "U+1D70", "U+1D71", "U+1D72", "U+1D73",
    "U+1D74", "U+1D75", "U+1D76", "U+1D77", "U+1D79", "U+1D7A", "U+1D7B", "U+1D7C", "U+1D7D",
    "U+1D7E", "U+1D7F", "U+1D80", "U+1D81", "U+1D82", "U+1D83", "U+1D84", "U+1D85", "U+1D86",
    "U+1D87", "U+1D88", "U+1D89", "U+1D8A", "U+1D8B", "U+1D8C", "U+1D8D", "U+1D8E", "U+1D8F",
    "U+1D90", "U+1D91", "U+1D92", "U+1D93", "U+1D94", "U+1D95", "U+1D96", "U+1D97", "U+1D98",
    "U+1D99", "U+1D9A", "U+1E00", "U+1E01", "U+1E02", "U+1E03", "U+1E04", "U+1E05", "U+1E06",
    "U+1E07", "U+1E08", "U+1E09", "U+1E0A", "U+1E0B", "U+1E0C", "U+1E0D", "U+1E0E", "U+1E0F",
    "U+1E10", "U+1E11", "U+1E12", "U+1E13", "U+1E14", "U+1E15", "U+1E16", "U+1E17", "U+1E18",
    "U+1E19", "U+1E1A", "U+1E1B", "U+1E1C", "U+1E1D", "U+1E1E", "U+1E1F", "U+1E20", "U+1E21",
    "U+1E22", "U+1E23", "U+1E24", "U+1E25", "U+1E26", "U+1E27", "U+1E28", "U+1E29", "U+1E2A",
    "U+1E2B", "U+1E2C", "U+1E2D", "U+1E2E", "U+1E2F", "U+1E30", "U+1E31", "U+1E32", "U+1E33",
    "U+1E34", "U+1E35", "U+1E36", "U+1E37", "U+1E38", "U+1E39", "U+1E3A", "U+1E3B", "U+1E3C",
    "U+1E3D", "U+1E3E", "U+1E3F", "U+1E40", "U+1E41", "U+1E42", "U+1E43", "U+1E44", "U+1E45",
    "U+1E46", "U+1E47", "U+1E48", "U+1E49", "U+1E4A", "U+1E4B", "U+1E4C", "U+1E4D", "U+1E4E",
    "U+1E4F", "U+1E50", "U+1E51", "U+1E52", "U+1E53", "U+1E54", "U+1E55", "U+1E56", "U+1E57",
    "U+1E58", "U+1E59", "U+1E5A", "U+1E5B", "U+1E5C", "U+1E5D", "U+1E5E", "U+1E5F", "U+1E60",
    "U+1E61", "U+1E62", "U+1E63", "U+1E64", "U+1E65", "U+1E66", "U+1E67", "U+1E68", "U+1E69",
    "U+1E6A", "U+1E6B", "U+1E6C", "U+1E6D", "U+1E6E", "U+1E6F", "U+1E70", "U+1E71", "U+1E72",
    "U+1E73", "U+1E74", "U+1E75", "U+1E76", "U+1E77", "U+1E78", "U+1E79", "U+1E7A", "U+1E7B",
    "U+1E7C", "U+1E7D", "U+1E7E", "U+1E7F", "U+1E80", "U+1E81", "U+1E82", "U+1E83", "U+1E84",
    "U+1E85", "U+1E86", "U+1E87", "U+1E88", "U+1E89", "U+1E8A", "U+1E8B", "U+1E8C", "U+1E8D",
    "U+1E8E", "U+1E8F", "U+1E90", "U+1E91", "U+1E92", "U+1E93", "U+1E94", "U+1E95", "U+1E96",
    "U+1E97", "U+1E98", "U+1E99", "U+1E9A", "U+1E9B", "U+1E9C", "U+1E9D", "U+1E9E", "U+1E9F",
    "U+1EA0", "U+1EA1", "U+1EA2", "U+1EA3", "U+1EA4", "U+1EA5", "U+1EA6", "U+1EA7", "U+1EA8",
    "U+1EA9", "U+1EAA", "U+1EAB", "U+1EAC", "U+1EAD", "U+1EAE", "U+1EAF", "U+1EB0", "U+1EB1",
    "U+1EB2", "U+1EB3", "U+1EB4", "U+1EB5", "U+1EB6", "U+1EB7", "U+1EB8", "U+1EB9", "U+1EBA",
    "U+1EBB", "U+1EBC", "U+1EBD", "U+1EBE", "U+1EBF", "U+1EC0", "U+1EC1", "U+1EC2", "U+1EC3",
    "U+1EC4", "U+1EC5", "U+1EC6", "U+1EC7", "U+1EC8", "U+1EC9", "U+1ECA", "U+1ECB", "U+1ECC",
    "U+1ECD", "U+1ECE", "U+1ECF", "U+1ED0", "U+1ED1", "U+1ED2", "U+1ED3", "U+1ED4", "U+1ED5",
    "U+1ED6", "U+1ED7", "U+1ED8", "U+1ED9", "U+1EDA", "U+1EDB", "U+1EDC", "U+1EDD", "U+1EDE",
    "U+1EDF", "U+1EE0", "U+1EE1", "U+1EE2", "U+1EE3", "U+1EE4", "U+1EE5", "U+1EE6", "U+1EE7",
    "U+1EE8", "U+1EE9", "U+1EEA", "U+1EEB", "U+1EEC", "U+1EED", "U+1EEE", "U+1EEF", "U+1EF0",
    "U+1EF1", "U+1EF2", "U+1EF3", "U+1EF4", "U+1EF5", "U+1EF6", "U+1EF7", "U+1EF8", "U+1EF9",
    "U+1EFA", "U+1EFB", "U+1EFC", "U+1EFD", "U+1EFE", "U+1EFF", "U+1F00", "U+1F01", "U+1F02",
    "U+1F03", "U+1F04", "U+1F05", "U+1F06", "U+1F07", "U+1F08", "U+1F09", "U+1F0A", "U+1F0B",
    "U+1F0C", "U+1F0D", "U+1F0E", "U+1F0F", "U+1F10", "U+1F11", "U+1F12", "U+1F13", "U+1F14",
    "U+1F15", "U+1F18", "U+1F19", "U+1F1A", "U+1F1B", "U+1F1C", "U+1F1D", "U+1F20", "U+1F21",
    "U+1F22", "U+1F23", "U+1F24", "U+1F25", "U+1F26", "U+1F27", "U+1F28", "U+1F29", "U+1F2A",
    "U+1F2B", "U+1F2C", "U+1F2D", "U+1F2E", "U+1F2F", "U+1F30", "U+1F31", "U+1F32", "U+1F33",
    "U+1F34", "U+1F35", "U+1F36", "U+1F37", "U+1F38", "U+1F39", "U+1F3A", "U+1F3B", "U+1F3C",
    "U+1F3D", "U+1F3E", "U+1F3F", "U+1F40", "U+1F41", "U+1F42", "U+1F43", "U+1F44", "U+1F45",
    "U+1F48", "U+1F49", "U+1F4A", "U+1F4B", "U+1F4C", "U+1F4D", "U+1F50", "U+1F51", "U+1F52",
    "U+1F53", "U+1F54", "U+1F55", "U+1F56", "U+1F57", "U+1F59", "U+1F5B", "U+1F5D", "U+1F5F",
    "U+1F60", "U+1F61", "U+1F62", "U+1F63", "U+1F64", "U+1F65", "U+1F66", "U+1F67", "U+1F68",
    "U+1F69", "U+1F6A", "U+1F6B", "U+1F6C", "U+1F6D", "U+1F6E", "U+1F6F", "U+1F70", "U+1F71",
    "U+1F72", "U+1F73", "U+1F74", "U+1F75", "U+1F76", "U+1F77", "U+1F78", "U+1F79", "U+1F7A",
    "U+1F7B", "U+1F7C", "U+1F7D", "U+1F80", "U+1F81", "U+1F82", "U+1F83", "U+1F84", "U+1F85",
    "U+1F86", "U+1F87", "U+1F88", "U+1F89", "U+1F8A", "U+1F8B", "U+1F8C", "U+1F8D", "U+1F8E",
    "U+1F8F", "U+1F90", "U+1F91", "U+1F92", "U+1F93", "U+1F94", "U+1F95", "U+1F96", "U+1F97",
    "U+1F98", "U+1F99", "U+1F9A", "U+1F9B", "U+1F9C", "U+1F9D", "U+1F9E", "U+1F9F", "U+1FA0",
    "U+1FA1", "U+1FA2", "U+1FA3", "U+1FA4", "U+1FA5", "U+1FA6", "U+1FA7", "U+1FA8", "U+1FA9",
    "U+1FAA", "U+1FAB", "U+1FAC", "U+1FAD", "U+1FAE", "U+1FAF", "U+1FB0", "U+1FB1", "U+1FB2",
    "U+1FB3", "U+1FB4", "U+1FB6", "U+1FB7", "U+1FB8", "U+1FB9", "U+1FBA", "U+1FBB", "U+1FBC",
    "U+1FBE", "U+1FC2", "U+1FC3", "U+1FC4", "U+1FC6", "U+1FC7", "U+1FC8", "U+1FC9", "U+1FCA",
    "U+1FCB", "U+1FCC", "U+1FD0", "U+1FD1", "U+1FD2", "U+1FD3", "U+1FD6", "U+1FD7", "U+1FD8",
    "U+1FD9", "U+1FDA", "U+1FDB", "U+1FE0", "U+1FE1", "U+1FE2", "U+1FE3", "U+1FE4", "U+1FE5",
    "U+1FE6", "U+1FE7", "U+1FE8", "U+1FE9", "U+1FEA", "U+1FEB", "U+1FEC", "U+1FF2", "U+1FF3",
    "U+1FF4", "U+1FF6", "U+1FF7", "U+1FF8", "U+1FF9", "U+1FFA", "U+1FFB", "U+1FFC", "U+2102",
    "U+2107", "U+210A", "U+210B", "U+210C", "U+210D", "U+210E", "U+210F", "U+2110", "U+2111",
    "U+2112", "U+2113", "U+2115", "U+2119", "U+211A", "U+211B", "U+211C", "U+211D", "U+2124",
    "U+2126", "U+2128", "U+212A", "U+212B", "U+212C", "U+212D", "U+212F", "U+2130", "U+2131",
    "U+2132", "U+2133", "U+2134", "U+2139", "U+213C", "U+213D", "U+213E", "U+213F", "U+2145",
    "U+2146", "U+2147", "U+2148", "U+2149", "U+214E", "U+2160", "U+2161", "U+2162", "U+2163",
    "U+2164", "U+2165", "U+2166", "U+2167", "U+2168", "U+2169", "U+216A", "U+216B", "U+216C",
    "U+216D", "U+216E", "U+216F", "U+2170", "U+2171", "U+2172", "U+2173", "U+2174", "U+2175",
    "U+2176", "U+2177", "U+2178", "U+2179", "U+217A", "U+217B", "U+217C", "U+217D", "U+217E",
    "U+217F", "U+2183", "U+2184", "U+24B6", "U+24B7", "U+24B8", "U+24B9", "U+24BA", "U+24BB",
    "U+24BC", "U+24BD", "U+24BE", "U+24BF", "U+24C0", "U+24C1", "U+24C2", "U+24C3", "U+24C4",
    "U+24C5", "U+24C6", "U+24C7", "U+24C8", "U+24C9", "U+24CA", "U+24CB", "U+24CC", "U+24CD",
    "U+24CE", "U+24CF", "U+24D0", "U+24D1", "U+24D2", "U+24D3", "U+24D4", "U+24D5", "U+24D6",
    "U+24D7", "U+24D8", "U+24D9", "U+24DA", "U+24DB", "U+24DC", "U+24DD", "U+24DE", "U+24DF",
    "U+24E0", "U+24E1", "U+24E2", "U+24E3", "U+24E4", "U+24E5", "U+24E6", "U+24E7", "U+24E8",
    "U+24E9", "U+2C00", "U+2C01", "U+2C02", "U+2C03", "U+2C04", "U+2C05", "U+2C06", "U+2C07",
    "U+2C08", "U+2C09", "U+2C0A", "U+2C0B", "U+2C0C", "U+2C0D", "U+2C0E", "U+2C0F", "U+2C10",
    "U+2C11", "U+2C12", "U+2C13", "U+2C14", "U+2C15", "U+2C16", "U+2C17", "U+2C18", "U+2C19",
    "U+2C1A", "U+2C1B", "U+2C1C", "U+2C1D", "U+2C1E", "U+2C1F", "U+2C20", "U+2C21", "U+2C22",
    "U+2C23", "U+2C24", "U+2C25", "U+2C26", "U+2C27", "U+2C28", "U+2C29", "U+2C2A", "U+2C2B",
    "U+2C2C", "U+2C2D", "U+2C2E", "U+2C2F", "U+2C30", "U+2C31", "U+2C32", "U+2C33", "U+2C34",
    "U+2C35", "U+2C36", "U+2C37", "U+2C38", "U+2C39", "U+2C3A", "U+2C3B", "U+2C3C", "U+2C3D",
    "U+2C3E", "U+2C3F", "U+2C40", "U+2C41", "U+2C42", "U+2C43", "U+2C44", "U+2C45", "U+2C46",
    "U+2C47", "U+2C48", "U+2C49", "U+2C4A", "U+2C4B", "U+2C4C", "U+2C4D", "U+2C4E", "U+2C4F",
    "U+2C50", "U+2C51", "U+2C52", "U+2C53", "U+2C54", "U+2C55", "U+2C56", "U+2C57", "U+2C58",
    "U+2C59", "U+2C5A", "U+2C5B", "U+2C5C", "U+2C5D", "U+2C5E", "U+2C5F", "U+2C60", "U+2C61",
    "U+2C62", "U+2C63", "U+2C64", "U+2C65", "U+2C66", "U+2C67", "U+2C68", "U+2C69", "U+2C6A",
    "U+2C6B", "U+2C6C", "U+2C6D", "U+2C6E", "U+2C6F", "U+2C70", "U+2C71", "U+2C72", "U+2C73",
    "U+2C74", "U+2C75", "U+2C76", "U+2C77", "U+2C78", "U+2C79", "U+2C7A", "U+2C7B", "U+2C7E",
    "U+2C7F", "U+2C80", "U+2C81", "U+2C82", "U+2C83", "U+2C84", "U+2C85", "U+2C86", "U+2C87",
    "U+2C88", "U+2C89", "U+2C8A", "U+2C8B", "U+2C8C", "U+2C8D", "U+2C8E", "U+2C8F", "U+2C90",
    "U+2C91", "U+2C92", "U+2C93", "U+2C94", "U+2C95", "U+2C96", "U+2C97", "U+2C98", "U+2C99",
    "U+2C9A", "U+2C9B", "U+2C9C", "U+2C9D", "U+2C9E", "U+2C9F", "U+2CA0", "U+2CA1", "U+2CA2",
    "U+2CA3", "U+2CA4", "U+2CA5", "U+2CA6", "U+2CA7", "U+2CA8", "U+2CA9", "U+2CAA", "U+2CAB",
    "U+2CAC", "U+2CAD", "U+2CAE", "U+2CAF", "U+2CB0", "U+2CB1", "U+2CB2", "U+2CB3", "U+2CB4",
    "U+2CB5", "U+2CB6", "U+2CB7", "U+2CB8", "U+2CB9", "U+2CBA", "U+2CBB", "U+2CBC", "U+2CBD",
    "U+2CBE", "U+2CBF", "U+2CC0", "U+2CC1", "U+2CC2", "U+2CC3", "U+2CC4", "U+2CC5", "U+2CC6",
    "U+2CC7", "U+2CC8", "U+2CC9", "U+2CCA", "U+2CCB", "U+2CCC", "U+2CCD", "U+2CCE", "U+2CCF",
    "U+2CD0", "U+2CD1", "U+2CD2", "U+2CD3", "U+2CD4", "U+2CD5", "U+2CD6", "U+2CD7", "U+2CD8",
    "U+2CD9", "U+2CDA", "U+2CDB", "U+2CDC", "U+2CDD", "U+2CDE", "U+2CDF", "U+2CE0", "U+2CE1",
    "U+2CE2", "U+2CE3", "U+2CE4", "U+2CEB", "U+2CEC", "U+2CED", "U+2CEE", "U+2CF2", "U+2CF3",
    "U+2D00", "U+2D01", "U+2D02", "U+2D03", "U+2D04", "U+2D05", "U+2D06", "U+2D07", "U+2D08",
    "U+2D09", "U+2D0A", "U+2D0B", "U+2D0C", "U+2D0D", "U+2D0E", "U+2D0F", "U+2D10", "U+2D11",
    "U+2D12", "U+2D13", "U+2D14", "U+2D15", "U+2D16", "U+2D17", "U+2D18", "U+2D19", "U+2D1A",
    "U+2D1B", "U+2D1C", "U+2D1D", "U+2D1E", "U+2D1F", "U+2D20", "U+2D21", "U+2D22", "U+2D23",
    "U+2D24", "U+2D25", "U+2D27", "U+2D2D", "U+A640", "U+A641", "U+A642", "U+A643", "U+A644",
    "U+A645", "U+A646", "U+A647", "U+A648", "U+A649", "U+A64A", "U+A64B", "U+A64C", "U+A64D",
    "U+A64E", "U+A64F", "U+A650", "U+A651", "U+A652", "U+A653", "U+A654", "U+A655", "U+A656",
    "U+A657", "U+A658", "U+A659", "U+A65A", "U+A65B", "U+A65C", "U+A65D", "U+A65E", "U+A65F",
    "U+A660", "U+A661", "U+A662", "U+A663", "U+A664", "U+A665", "U+A666", "U+A667", "U+A668",
    "U+A669", "U+A66A", "U+A66B", "U+A66C", "U+A66D", "U+A680", "U+A681", "U+A682", "U+A683",
    "U+A684", "U+A685", "U+A686", "U+A687", "U+A688", "U+A689", "U+A68A", "U+A68B", "U+A68C",
    "U+A68D", "U+A68E", "U+A68F", "U+A690", "U+A691", "U+A692", "U+A693", "U+A694", "U+A695",
    "U+A696", "U+A697", "U+A698", "U+A699", "U+A69A", "U+A69B", "U+A722", "U+A723", "U+A724",
    "U+A725", "U+A726", "U+A727", "U+A728", "U+A729", "U+A72A", "U+A72B", "U+A72C", "U+A72D",
    "U+A72E", "U+A72F", "U+A730", "U+A731", "U+A732", "U+A733", "U+A734", "U+A735", "U+A736",
    "U+A737", "U+A738", "U+A739", "U+A73A", "U+A73B", "U+A73C", "U+A73D", "U+A73E", "U+A73F",
    "U+A740", "U+A741", "U+A742", "U+A743", "U+A744", "U+A745", "U+A746", "U+A747", "U+A748",
    "U+A749", "U+A74A", "U+A74B", "U+A74C", "U+A74D", "U+A74E", "U+A74F", "U+A750", "U+A751",
    "U+A752", "U+A753", "U+A754", "U+A755", "U+A756", "U+A757", "U+A758", "U+A759", "U+A75A",
    "U+A75B", "U+A75C", "U+A75D", "U+A75E", "U+A75F", "U+A760", "U+A761", "U+A762", "U+A763",
    "U+A764", "U+A765", "U+A766", "U+A767", "U+A768", "U+A769", "U+A76A", "U+A76B", "U+A76C",
    "U+A76D", "U+A76E", "U+A76F", "U+A771", "U+A772", "U+A773", "U+A774", "U+A775", "U+A776",
    "U+A777", "U+A778", "U+A779", "U+A77A", "U+A77B", "U+A77C", "U+A77D", "U+A77E", "U+A77F",
    "U+A780", "U+A781", "U+A782", "U+A783", "U+A784", "U+A785", "U+A786", "U+A787", "U+A78B",
    "U+A78C", "U+A78D", "U+A78E", "U+A790", "U+A791", "U+A792", "U+A793", "U+A794", "U+A795",
    "U+A796", "U+A797", "U+A798", "U+A799", "U+A79A", "U+A79B", "U+A79C", "U+A79D", "U+A79E",
    "U+A79F", "U+A7A0", "U+A7A1", "U+A7A2", "U+A7A3", "U+A7A4", "U+A7A5", "U+A7A6", "U+A7A7",
    "U+A7A8", "U+A7A9", "U+A7AA", "U+A7AB", "U+A7AC", "U+A7AD", "U+A7AE", "U+A7AF", "U+A7B0",
    "U+A7B1", "U+A7B2", "U+A7B3", "U+A7B4", "U+A7B5", "U+A7B6", "U+A7B7", "U+A7B8", "U+A7B9",
    "U+A7BA", "U+A7BB", "U+A7BC", "U+A7BD", "U+A7BE", "U+A7BF", "U+A7C0", "U+A7C1", "U+A7C2",
    "U+A7C3", "U+A7C4", "U+A7C5", "U+A7C6", "U+A7C7", "U+A7C8", "U+A7C9", "U+A7CA", "U+A7D0",
    "U+A7D1", "U+A7D3", "U+A7D5", "U+A7D6", "U+A7D7", "U+A7D8", "U+A7D9", "U+A7F5", "U+A7F6",
    "U+A7FA", "U+AB30", "U+AB31", "U+AB32", "U+AB33", "U+AB34", "U+AB35", "U+AB36", "U+AB37",
    "U+AB38", "U+AB39", "U+AB3A", "U+AB3B", "U+AB3C", "U+AB3D", "U+AB3E", "U+AB3F", "U+AB40",
    "U+AB41", "U+AB42", "U+AB43", "U+AB44", "U+AB45", "U+AB46", "U+AB47", "U+AB48", "U+AB49",
    "U+AB4A", "U+AB4B", "U+AB4C", "U+AB4D", "U+AB4E", "U+AB4F", "U+AB50", "U+AB51", "U+AB52",
    "U+AB53", "U+AB54", "U+AB55", "U+AB56", "U+AB57", "U+AB58", "U+AB59", "U+AB5A", "U+AB60",
    "U+AB61", "U+AB62", "U+AB63", "U+AB64", "U+AB65", "U+AB66", "U+AB67", "U+AB68", "U+AB70",
    "U+AB71", "U+AB72", "U+AB73", "U+AB74", "U+AB75", "U+AB76", "U+AB77", "U+AB78", "U+AB79",
    "U+AB7A", "U+AB7B", "U+AB7C", "U+AB7D", "U+AB7E", "U+AB7F", "U+AB80", "U+AB81", "U+AB82",
    "U+AB83", "U+AB84", "U+AB85", "U+AB86", "U+AB87", "U+AB88", "U+AB89", "U+AB8A", "U+AB8B",
    "U+AB8C", "U+AB8D", "U+AB8E", "U+AB8F", "U+AB90", "U+AB91", "U+AB92", "U+AB93", "U+AB94",
    "U+AB95", "U+AB96", "U+AB97", "U+AB98", "U+AB99", "U+AB9A", "U+AB9B", "U+AB9C", "U+AB9D",
    "U+AB9E", "U+AB9F", "U+ABA0", "U+ABA1", "U+ABA2", "U+ABA3", "U+ABA4", "U+ABA5", "U+ABA6",
    "U+ABA7", "U+ABA8", "U+ABA9", "U+ABAA", "U+ABAB", "U+ABAC", "U+ABAD", "U+ABAE", "U+ABAF",
    "U+ABB0", "U+ABB1", "U+ABB2", "U+ABB3", "U+ABB4", "U+ABB5", "U+ABB6", "U+ABB7", "U+ABB8",
    "U+ABB9", "U+ABBA", "U+ABBB", "U+ABBC", "U+ABBD", "U+ABBE", "U+ABBF", "U+FB00", "U+FB01",
    "U+FB02", "U+FB03", "U+FB04", "U+FB05", "U+FB06", "U+FB13", "U+FB14", "U+FB15", "U+FB16",
    "U+FB17", "U+FF21", "U+FF22", "U+FF23", "U+FF24", "U+FF25", "U+FF26", "U+FF27", "U+FF28",
    "U+FF29", "U+FF2A", "U+FF2B", "U+FF2C", "U+FF2D", "U+FF2E", "U+FF2F", "U+FF30", "U+FF31",
    "U+FF32", "U+FF33", "U+FF34", "U+FF35", "U+FF36", "U+FF37", "U+FF38", "U+FF39", "U+FF3A",
    "U+FF41", "U+FF42", "U+FF43", "U+FF44", "U+FF45", "U+FF46", "U+FF47", "U+FF48", "U+FF49",
    "U+FF4A", "U+FF4B", "U+FF4C", "U+FF4D", "U+FF4E", "U+FF4F", "U+FF50", "U+FF51", "U+FF52",
    "U+FF53", "U+FF54", "U+FF55", "U+FF56", "U+FF57", "U+FF58", "U+FF59", "U+FF5A", "U+10400",
    "U+10401", "U+10402", "U+10403", "U+10404", "U+10405", "U+10406", "U+10407", "U+10408",
    "U+10409", "U+1040A", "U+1040B", "U+1040C", "U+1040D", "U+1040E", "U+1040F", "U+10410",
    "U+10411", "U+10412", "U+10413", "U+10414", "U+10415", "U+10416", "U+10417", "U+10418",
    "U+10419", "U+1041A", "U+1041B", "U+1041C", "U+1041D", "U+1041E", "U+1041F", "U+10420",
    "U+10421", "U+10422", "U+10423", "U+10424", "U+10425", "U+10426", "U+10427", "U+10428",
    "U+10429", "U+1042A", "U+1042B", "U+1042C", "U+1042D", "U+1042E", "U+1042F", "U+10430",
    "U+10431", "U+10432", "U+10433", "U+10434", "U+10435", "U+10436", "U+10437", "U+10438",
    "U+10439", "U+1043A", "U+1043B", "U+1043C", "U+1043D", "U+1043E", "U+1043F", "U+10440",
    "U+10441", "U+10442", "U+10443", "U+10444", "U+10445", "U+10446", "U+10447", "U+10448",
    "U+10449", "U+1044A", "U+1044B", "U+1044C", "U+1044D", "U+1044E", "U+1044F", "U+104B0",
    "U+104B1", "U+104B2", "U+104B3", "U+104B4", "U+104B5", "U+104B6", "U+104B7", "U+104B8",
    "U+104B9", "U+104BA", "U+104BB", "U+104BC", "U+104BD", "U+104BE", "U+104BF", "U+104C0",
    "U+104C1", "U+104C2", "U+104C3", "U+104C4", "U+104C5", "U+104C6", "U+104C7", "U+104C8",
    "U+104C9", "U+104CA", "U+104CB", "U+104CC", "U+104CD", "U+104CE", "U+104CF", "U+104D0",
    "U+104D1", "U+104D2", "U+104D3", "U+104D8", "U+104D9", "U+104DA", "U+104DB", "U+104DC",
    "U+104DD", "U+104DE", "U+104DF", "U+104E0", "U+104E1", "U+104E2", "U+104E3", "U+104E4",
    "U+104E5", "U+104E6", "U+104E7", "U+104E8", "U+104E9", "U+104EA", "U+104EB", "U+104EC",
    "U+104ED", "U+104EE", "U+104EF", "U+104F0", "U+104F1", "U+104F2", "U+104F3", "U+104F4",
    "U+104F5", "U+104F6", "U+104F7", "U+104F8", "U+104F9", "U+104FA", "U+104FB", "U+10570",
    "U+10571", "U+10572", "U+10573", "U+10574", "U+10575", "U+10576", "U+10577", "U+10578",
    "U+10579", "U+1057A", "U+1057C", "U+1057D", "U+1057E", "U+1057F", "U+10580", "U+10581",
    "U+10582", "U+10583", "U+10584", "U+10585", "U+10586", "U+10587", "U+10588", "U+10589",
    "U+1058A", "U+1058C", "U+1058D", "U+1058E", "U+1058F", "U+10590", "U+10591", "U+10592",
    "U+10594", "U+10595", "U+10597", "U+10598", "U+10599", "U+1059A", "U+1059B", "U+1059C",
    "U+1059D", "U+1059E", "U+1059F", "U+105A0", "U+105A1", "U+105A3", "U+105A4", "U+105A5",
    "U+105A6", "U+105A7", "U+105A8", "U+105A9", "U+105AA", "U+105AB", "U+105AC", "U+105AD",
    "U+105AE", "U+105AF", "U+105B0", "U+105B1", "U+105B3", "U+105B4", "U+105B5", "U+105B6",
    "U+105B7", "U+105B8", "U+105B9", "U+105BB", "U+105BC", "U+10C80", "U+10C81", "U+10C82",
    "U+10C83", "U+10C84", "U+10C85", "U+10C86", "U+10C87", "U+10C88", "U+10C89", "U+10C8A",
    "U+10C8B", "U+10C8C", "U+10C8D", "U+10C8E", "U+10C8F", "U+10C90", "U+10C91", "U+10C92",
    "U+10C93", "U+10C94", "U+10C95", "U+10C96", "U+10C97", "U+10C98", "U+10C99", "U+10C9A",
    "U+10C9B", "U+10C9C", "U+10C9D", "U+10C9E", "U+10C9F", "U+10CA0", "U+10CA1", "U+10CA2",
    "U+10CA3", "U+10CA4", "U+10CA5", "U+10CA6", "U+10CA7", "U+10CA8", "U+10CA9", "U+10CAA",
    "U+10CAB", "U+10CAC", "U+10CAD", "U+10CAE", "U+10CAF", "U+10CB0", "U+10CB1", "U+10CB2",
    "U+10CC0", "U+10CC1", "U+10CC2", "U+10CC3", "U+10CC4", "U+10CC5", "U+10CC6", "U+10CC7",
    "U+10CC8", "U+10CC9", "U+10CCA", "U+10CCB", "U+10CCC", "U+10CCD", "U+10CCE", "U+10CCF",
    "U+10CD0", "U+10CD1", "U+10CD2", "U+10CD3", "U+10CD4", "U+10CD5", "U+10CD6", "U+10CD7",
    "U+10CD8", "U+10CD9", "U+10CDA", "U+10CDB", "U+10CDC", "U+10CDD", "U+10CDE", "U+10CDF",
    "U+10CE0", "U+10CE1", "U+10CE2", "U+10CE3", "U+10CE4", "U+10CE5", "U+10CE6", "U+10CE7",
    "U+10CE8", "U+10CE9", "U+10CEA", "U+10CEB", "U+10CEC", "U+10CED", "U+10CEE", "U+10CEF",
    "U+10CF0", "U+10CF1", "U+10CF2", "U+118A0", "U+118A1", "U+118A2", "U+118A3", "U+118A4",
    "U+118A5", "U+118A6", "U+118A7", "U+118A8", "U+118A9", "U+118AA", "U+118AB", "U+118AC",
    "U+118AD", "U+118AE", "U+118AF", "U+118B0", "U+118B1", "U+118B2", "U+118B3", "U+118B4",
    "U+118B5", "U+118B6", "U+118B7", "U+118B8", "U+118B9", "U+118BA", "U+118BB", "U+118BC",
    "U+118BD", "U+118BE", "U+118BF", "U+118C0", "U+118C1", "U+118C2", "U+118C3", "U+118C4",
    "U+118C5", "U+118C6", "U+118C7", "U+118C8", "U+118C9", "U+118CA", "U+118CB", "U+118CC",
    "U+118CD", "U+118CE", "U+118CF", "U+118D0", "U+118D1", "U+118D2", "U+118D3", "U+118D4",
    "U+118D5", "U+118D6", "U+118D7", "U+118D8", "U+118D9", "U+118DA", "U+118DB", "U+118DC",
    "U+118DD", "U+118DE", "U+118DF", "U+16E40", "U+16E41", "U+16E42", "U+16E43", "U+16E44",
    "U+16E45", "U+16E46", "U+16E47", "U+16E48", "U+16E49", "U+16E4A", "U+16E4B", "U+16E4C",
    "U+16E4D", "U+16E4E", "U+16E4F", "U+16E50", "U+16E51", "U+16E52", "U+16E53", "U+16E54",
    "U+16E55", "U+16E56", "U+16E57", "U+16E58", "U+16E59", "U+16E5A", "U+16E5B", "U+16E5C",
    "U+16E5D", "U+16E5E", "U+16E5F", "U+16E60", "U+16E61", "U+16E62", "U+16E63", "U+16E64",
    "U+16E65", "U+16E66", "U+16E67", "U+16E68", "U+16E69", "U+16E6A", "U+16E6B", "U+16E6C",
    "U+16E6D", "U+16E6E", "U+16E6F", "U+16E70", "U+16E71", "U+16E72", "U+16E73", "U+16E74",
    "U+16E75", "U+16E76", "U+16E77", "U+16E78", "U+16E79", "U+16E7A", "U+16E7B", "U+16E7C",
    "U+16E7D", "U+16E7E", "U+16E7F", "U+1D400", "U+1D401", "U+1D402", "U+1D403", "U+1D404",
    "U+1D405", "U+1D406", "U+1D407", "U+1D408", "U+1D409", "U+1D40A", "U+1D40B", "U+1D40C",
    "U+1D40D", "U+1D40E", "U+1D40F", "U+1D410", "U+1D411", "U+1D412", "U+1D413", "U+1D414",
    "U+1D415", "U+1D416", "U+1D417", "U+1D418", "U+1D419", "U+1D41A", "U+1D41B", "U+1D41C",
    "U+1D41D", "U+1D41E", "U+1D41F", "U+1D420", "U+1D421", "U+1D422", "U+1D423", "U+1D424",
    "U+1D425", "U+1D426", "U+1D427", "U+1D428", "U+1D429", "U+1D42A", "U+1D42B", "U+1D42C",
    "U+1D42D", "U+1D42E", "U+1D42F", "U+1D430", "U+1D431", "U+1D432", "U+1D433", "U+1D434",
    "U+1D435", "U+1D436", "U+1D437", "U+1D438", "U+1D439", "U+1D43A", "U+1D43B", "U+1D43C",
    "U+1D43D", "U+1D43E", "U+1D43F", "U+1D440", "U+1D441", "U+1D442", "U+1D443", "U+1D444",
    "U+1D445", "U+1D446", "U+1D447", "U+1D448", "U+1D449", "U+1D44A", "U+1D44B", "U+1D44C",
    "U+1D44D", "U+1D44E", "U+1D44F", "U+1D450", "U+1D451", "U+1D452", "U+1D453", "U+1D454",
    "U+1D456", "U+1D457", "U+1D458", "U+1D459", "U+1D45A", "U+1D45B", "U+1D45C", "U+1D45D",
    "U+1D45E", "U+1D45F", "U+1D460", "U+1D461", "U+1D462", "U+1D463", "U+1D464", "U+1D465",
    "U+1D466", "U+1D467", "U+1D468", "U+1D469", "U+1D46A", "U+1D46B", "U+1D46C", "U+1D46D",
    "U+1D46E", "U+1D46F", "U+1D470", "U+1D471", "U+1D472", "U+1D473", "U+1D474", "U+1D475",
    "U+1D476", "U+1D477", "U+1D478", "U+1D479", "U+1D47A", "U+1D47B", "U+1D47C", "U+1D47D",
    "U+1D47E", "U+1D47F", "U+1D480", "U+1D481", "U+1D482", "U+1D483", "U+1D484", "U+1D485",
    "U+1D486", "U+1D487", "U+1D488", "U+1D489", "U+1D48A", "U+1D48B", "U+1D48C", "U+1D48D",
    "U+1D48E", "U+1D48F", "U+1D490", "U+1D491", "U+1D492", "U+1D493", "U+1D494", "U+1D495",
    "U+1D496", "U+1D497", "U+1D498", "U+1D499", "U+1D49A", "U+1D49B", "U+1D49C", "U+1D49E",
    "U+1D49F", "U+1D4A2", "U+1D4A5", "U+1D4A6", "U+1D4A9", "U+1D4AA", "U+1D4AB", "U+1D4AC",
    "U+1D4AE", "U+1D4AF", "U+1D4B0", "U+1D4B1", "U+1D4B2", "U+1D4B3", "U+1D4B4", "U+1D4B5",
    "U+1D4B6", "U+1D4B7", "U+1D4B8", "U+1D4B9", "U+1D4BB", "U+1D4BD", "U+1D4BE", "U+1D4BF",
    "U+1D4C0", "U+1D4C1", "U+1D4C2", "U+1D4C3", "U+1D4C5", "U+1D4C6", "U+1D4C7", "U+1D4C8",
    "U+1D4C9", "U+1D4CA", "U+1D4CB", "U+1D4CC", "U+1D4CD", "U+1D4CE", "U+1D4CF", "U+1D4D0",
    "U+1D4D1", "U+1D4D2", "U+1D4D3", "U+1D4D4", "U+1D4D5", "U+1D4D6", "U+1D4D7", "U+1D4D8",
    "U+1D4D9", "U+1D4DA", "U+1D4DB", "U+1D4DC", "U+1D4DD", "U+1D4DE", "U+1D4DF", "U+1D4E0",
    "U+1D4E1", "U+1D4E2", "U+1D4E3", "U+1D4E4", "U+1D4E5", "U+1D4E6", "U+1D4E7", "U+1D4E8",
    "U+1D4E9", "U+1D4EA", "U+1D4EB", "U+1D4EC", "U+1D4ED", "U+1D4EE", "U+1D4EF", "U+1D4F0",
    "U+1D4F1", "U+1D4F2", "U+1D4F3", "U+1D4F4", "U+1D4F5", "U+1D4F6", "U+1D4F7", "U+1D4F8",
    "U+1D4F9", "U+1D4FA", "U+1D4FB", "U+1D4FC", "U+1D4FD", "U+1D4FE", "U+1D4FF", "U+1D500",
    "U+1D501", "U+1D502", "U+1D503", "U+1D504", "U+1D505", "U+1D507", "U+1D508", "U+1D509",
    "U+1D50A", "U+1D50D", "U+1D50E", "U+1D50F", "U+1D510", "U+1D511", "U+1D512", "U+1D513",
    "U+1D514", "U+1D516", "U+1D517", "U+1D518", "U+1D519", "U+1D51A", "U+1D51B", "U+1D51C",
    "U+1D51E", "U+1D51F", "U+1D520", "U+1D521", "U+1D522", "U+1D523", "U+1D524", "U+1D525",
    "U+1D526", "U+1D527", "U+1D528", "U+1D529", "U+1D52A", "U+1D52B", "U+1D52C", "U+1D52D",
    "U+1D52E", "U+1D52F", "U+1D530", "U+1D531", "U+1D532", "U+1D533", "U+1D534", "U+1D535",
    "U+1D536", "U+1D537", "U+1D538", "U+1D539", "U+1D53B", "U+1D53C", "U+1D53D", "U+1D53E",
    "U+1D540", "U+1D541", "U+1D542", "U+1D543", "U+1D544", "U+1D546", "U+1D54A", "U+1D54B",
    "U+1D54C", "U+1D54D", "U+1D54E", "U+1D54F", "U+1D550", "U+1D552", "U+1D553", "U+1D554",
    "U+1D555", "U+1D556", "U+1D557", "U+1D558", "U+1D559", "U+1D55A", "U+1D55B", "U+1D55C",
    "U+1D55D", "U+1D55E", "U+1D55F", "U+1D560", "U+1D561", "U+1D562", "U+1D563", "U+1D564",
    "U+1D565", "U+1D566", "U+1D567", "U+1D568", "U+1D569", "U+1D56A", "U+1D56B", "U+1D56C",
    "U+1D56D", "U+1D56E", "U+1D56F", "U+1D570", "U+1D571", "U+1D572", "U+1D573", "U+1D574",
    "U+1D575", "U+1D576", "U+1D577", "U+1D578", "U+1D579", "U+1D57A", "U+1D57B", "U+1D57C",
    "U+1D57D", "U+1D57E", "U+1D57F", "U+1D580", "U+1D581", "U+1D582", "U+1D583", "U+1D584",
    "U+1D585", "U+1D586", "U+1D587", "U+1D588", "U+1D589", "U+1D58A", "U+1D58B", "U+1D58C",
    "U+1D58D", "U+1D58E", "U+1D58F", "U+1D590", "U+1D591", "U+1D592", "U+1D593", "U+1D594",
    "U+1D595", "U+1D596", "U+1D597", "U+1D598", "U+1D599", "U+1D59A", "U+1D59B", "U+1D59C",
    "U+1D59D", "U+1D59E", "U+1D59F", "U+1D5A0", "U+1D5A1", "U+1D5A2", "U+1D5A3", "U+1D5A4",
    "U+1D5A5", "U+1D5A6", "U+1D5A7", "U+1D5A8", "U+1D5A9", "U+1D5AA", "U+1D5AB", "U+1D5AC",
    "U+1D5AD", "U+1D5AE", "U+1D5AF", "U+1D5B0", "U+1D5B1", "U+1D5B2", "U+1D5B3", "U+1D5B4",
    "U+1D5B5", "U+1D5B6", "U+1D5B7", "U+1D5B8", "U+1D5B9", "U+1D5BA", "U+1D5BB", "U+1D5BC",
    "U+1D5BD", "U+1D5BE", "U+1D5BF", "U+1D5C0", "U+1D5C1", "U+1D5C2", "U+1D5C3", "U+1D5C4",
    "U+1D5C5", "U+1D5C6", "U+1D5C7", "U+1D5C8", "U+1D5C9", "U+1D5CA", "U+1D5CB", "U+1D5CC",
    "U+1D5CD", "U+1D5CE", "U+1D5CF", "U+1D5D0", "U+1D5D1", "U+1D5D2", "U+1D5D3", "U+1D5D4",
    "U+1D5D5", "U+1D5D6", "U+1D5D7", "U+1D5D8", "U+1D5D9", "U+1D5DA", "U+1D5DB", "U+1D5DC",
    "U+1D5DD", "U+1D5DE", "U+1D5DF", "U+1D5E0", "U+1D5E1", "U+1D5E2", "U+1D5E3", "U+1D5E4",
    "U+1D5E5", "U+1D5E6", "U+1D5E7", "U+1D5E8", "U+1D5E9", "U+1D5EA", "U+1D5EB", "U+1D5EC",
    "U+1D5ED", "U+1D5EE", "U+1D5EF", "U+1D5F0", "U+1D5F1", "U+1D5F2", "U+1D5F3", "U+1D5F4",
    "U+1D5F5", "U+1D5F6", "U+1D5F7", "U+1D5F8", "U+1D5F9", "U+1D5FA", "U+1D5FB", "U+1D5FC",
    "U+1D5FD", "U+1D5FE", "U+1D5FF", "U+1D600", "U+1D601", "U+1D602", "U+1D603", "U+1D604",
    "U+1D605", "U+1D606", "U+1D607", "U+1D608", "U+1D609", "U+1D60A", "U+1D60B", "U+1D60C",
    "U+1D60D", "U+1D60E", "U+1D60F", "U+1D610", "U+1D611", "U+1D612", "U+1D613", "U+1D614",
    "U+1D615", "U+1D616", "U+1D617", "U+1D618", "U+1D619", "U+1D61A", "U+1D61B", "U+1D61C",
    "U+1D61D", "U+1D61E", "U+1D61F", "U+1D620", "U+1D621", "U+1D622", "U+1D623", "U+1D624",
    "U+1D625", "U+1D626", "U+1D627", "U+1D628", "U+1D629", "U+1D62A", "U+1D62B", "U+1D62C",
    "U+1D62D", "U+1D62E", "U+1D62F", "U+1D630", "U+1D631", "U+1D632", "U+1D633", "U+1D634",
    "U+1D635", "U+1D636", "U+1D637", "U+1D638", "U+1D639", "U+1D63A", "U+1D63B", "U+1D63C",
    "U+1D63D", "U+1D63E", "U+1D63F", "U+1D640", "U+1D641", "U+1D642", "U+1D643", "U+1D644",
    "U+1D645", "U+1D646", "U+1D647", "U+1D648", "U+1D649", "U+1D64A", "U+1D64B", "U+1D64C",
    "U+1D64D", "U+1D64E", "U+1D64F", "U+1D650", "U+1D651", "U+1D652", "U+1D653", "U+1D654",
    "U+1D655", "U+1D656", "U+1D657", "U+1D658", "U+1D659", "U+1D65A", "U+1D65B", "U+1D65C",
    "U+1D65D", "U+1D65E", "U+1D65F", "U+1D660", "U+1D661", "U+1D662", "U+1D663", "U+1D664",
    "U+1D665", "U+1D666", "U+1D667", "U+1D668", "U+1D669", "U+1D66A", "U+1D66B", "U+1D66C",
    "U+1D66D", "U+1D66E", "U+1D66F", "U+1D670", "U+1D671", "U+1D672", "U+1D673", "U+1D674",
    "U+1D675", "U+1D676", "U+1D677", "U+1D678", "U+1D679", "U+1D67A", "U+1D67B", "U+1D67C",
    "U+1D67D", "U+1D67E", "U+1D67F", "U+1D680", "U+1D681", "U+1D682", "U+1D683", "U+1D684",
    "U+1D685", "U+1D686", "U+1D687", "U+1D688", "U+1D689", "U+1D68A", "U+1D68B", "U+1D68C",
    "U+1D68D", "U+1D68E", "U+1D68F", "U+1D690", "U+1D691", "U+1D692", "U+1D693", "U+1D694",
    "U+1D695", "U+1D696", "U+1D697", "U+1D698", "U+1D699", "U+1D69A", "U+1D69B", "U+1D69C",
    "U+1D69D", "U+1D69E", "U+1D69F", "U+1D6A0", "U+1D6A1", "U+1D6A2", "U+1D6A3", "U+1D6A4",
    "U+1D6A5", "U+1D6A8", "U+1D6A9", "U+1D6AA", "U+1D6AB", "U+1D6AC", "U+1D6AD", "U+1D6AE",
    "U+1D6AF", "U+1D6B0", "U+1D6B1", "U+1D6B2", "U+1D6B3", "U+1D6B4", "U+1D6B5", "U+1D6B6",
    "U+1D6B7", "U+1D6B8", "U+1D6B9", "U+1D6BA", "U+1D6BB", "U+1D6BC", "U+1D6BD", "U+1D6BE",
    "U+1D6BF", "U+1D6C0", "U+1D6C2", "U+1D6C3", "U+1D6C4", "U+1D6C5", "U+1D6C6", "U+1D6C7",
    "U+1D6C8", "U+1D6C9", "U+1D6CA", "U+1D6CB", "U+1D6CC", "U+1D6CD", "U+1D6CE", "U+1D6CF",
    "U+1D6D0", "U+1D6D1", "U+1D6D2", "U+1D6D3", "U+1D6D4", "U+1D6D5", "U+1D6D6", "U+1D6D7",
    "U+1D6D8", "U+1D6D9", "U+1D6DA", "U+1D6DC", "U+1D6DD", "U+1D6DE", "U+1D6DF", "U+1D6E0",
    "U+1D6E1", "U+1D6E2", "U+1D6E3", "U+1D6E4", "U+1D6E5", "U+1D6E6", "U+1D6E7", "U+1D6E8",
    "U+1D6E9", "U+1D6EA", "U+1D6EB", "U+1D6EC", "U+1D6ED", "U+1D6EE", "U+1D6EF", "U+1D6F0",
    "U+1D6F1", "U+1D6F2", "U+1D6F3", "U+1D6F4", "U+1D6F5", "U+1D6F6", "U+1D6F7", "U+1D6F8",
    "U+1D6F9", "U+1D6FA", "U+1D6FC", "U+1D6FD", "U+1D6FE", "U+1D6FF", "U+1D700", "U+1D701",
    "U+1D702", "U+1D703", "U+1D704", "U+1D705", "U+1D706", "U+1D707", "U+1D708", "U+1D709",
    "U+1D70A", "U+1D70B", "U+1D70C", "U+1D70D", "U+1D70E", "U+1D70F", "U+1D710", "U+1D711",
    "U+1D712", "U+1D713", "U+1D714", "U+1D716", "U+1D717", "U+1D718", "U+1D719", "U+1D71A",
    "U+1D71B", "U+1D71C", "U+1D71D", "U+1D71E", "U+1D71F", "U+1D720", "U+1D721", "U+1D722",
    "U+1D723", "U+1D724", "U+1D725", "U+1D726", "U+1D727", "U+1D728", "U+1D729", "U+1D72A",
    "U+1D72B", "U+1D72C", "U+1D72D", "U+1D72E", "U+1D72F", "U+1D730", "U+1D731", "U+1D732",
    "U+1D733", "U+1D734", "U+1D736", "U+1D737", "U+1D738", "U+1D739", "U+1D73A", "U+1D73B",
    "U+1D73C", "U+1D73D", "U+1D73E", "U+1D73F", "U+1D740", "U+1D741", "U+1D742", "U+1D743",
    "U+1D744", "U+1D745", "U+1D746", "U+1D747", "U+1D748", "U+1D749", "U+1D74A", "U+1D74B",
    "U+1D74C", "U+1D74D", "U+1D74E", "U+1D750", "U+1D751", "U+1D752", "U+1D753", "U+1D754",
    "U+1D755", "U+1D756", "U+1D757", "U+1D758", "U+1D759", "U+1D75A", "U+1D75B", "U+1D75C",
    "U+1D75D", "U+1D75E", "U+1D75F", "U+1D760", "U+1D761", "U+1D762", "U+1D763", "U+1D764",
    "U+1D765", "U+1D766", "U+1D767", "U+1D768", "U+1D769", "U+1D76A", "U+1D76B", "U+1D76C",
    "U+1D76D", "U+1D76E", "U+1D770", "U+1D771", "U+1D772", "U+1D773", "U+1D774", "U+1D775",
    "U+1D776", "U+1D777", "U+1D778", "U+1D779", "U+1D77A", "U+1D77B", "U+1D77C", "U+1D77D",
    "U+1D77E", "U+1D77F", "U+1D780", "U+1D781", "U+1D782", "U+1D783", "U+1D784", "U+1D785",
    "U+1D786", "U+1D787", "U+1D788", "U+1D78A", "U+1D78B", "U+1D78C", "U+1D78D", "U+1D78E",
    "U+1D78F", "U+1D790", "U+1D791", "U+1D792", "U+1D793", "U+1D794", "U+1D795", "U+1D796",
    "U+1D797", "U+1D798", "U+1D799", "U+1D79A", "U+1D79B", "U+1D79C", "U+1D79D", "U+1D79E",
    "U+1D79F", "U+1D7A0", "U+1D7A1", "U+1D7A2", "U+1D7A3", "U+1D7A4", "U+1D7A5", "U+1D7A6",
    "U+1D7A7", "U+1D7A8", "U+1D7AA", "U+1D7AB", "U+1D7AC", "U+1D7AD", "U+1D7AE", "U+1D7AF",
    "U+1D7B0", "U+1D7B1", "U+1D7B2", "U+1D7B3", "U+1D7B4", "U+1D7B5", "U+1D7B6", "U+1D7B7",
    "U+1D7B8", "U+1D7B9", "U+1D7BA", "U+1D7BB", "U+1D7BC", "U+1D7BD", "U+1D7BE", "U+1D7BF",
    "U+1D7C0", "U+1D7C1", "U+1D7C2", "U+1D7C4", "U+1D7C5", "U+1D7C6", "U+1D7C7", "U+1D7C8",
    "U+1D7C9", "U+1D7CA", "U+1D7CB", "U+1DF00", "U+1DF01", "U+1DF02", "U+1DF03", "U+1DF04",
    "U+1DF05", "U+1DF06", "U+1DF07", "U+1DF08", "U+1DF09", "U+1DF0B", "U+1DF0C", "U+1DF0D",
    "U+1DF0E", "U+1DF0F", "U+1DF10", "U+1DF11", "U+1DF12", "U+1DF13", "U+1DF14", "U+1DF15",
    "U+1DF16", "U+1DF17", "U+1DF18", "U+1DF19", "U+1DF1A", "U+1DF1B", "U+1DF1C", "U+1DF1D",
    "U+1DF1E", "U+1E900", "U+1E901", "U+1E902", "U+1E903", "U+1E904", "U+1E905", "U+1E906",
    "U+1E907", "U+1E908", "U+1E909", "U+1E90A", "U+1E90B", "U+1E90C", "U+1E90D", "U+1E90E",
    "U+1E90F", "U+1E910", "U+1E911", "U+1E912", "U+1E913", "U+1E914", "U+1E915", "U+1E916",
    "U+1E917", "U+1E918", "U+1E919", "U+1E91A", "U+1E91B", "U+1E91C", "U+1E91D", "U+1E91E",
    "U+1E91F", "U+1E920", "U+1E921", "U+1E922", "U+1E923", "U+1E924", "U+1E925", "U+1E926",
    "U+1E927", "U+1E928", "U+1E929", "U+1E92A", "U+1E92B", "U+1E92C", "U+1E92D", "U+1E92E",
    "U+1E92F", "U+1E930", "U+1E931", "U+1E932", "U+1E933", "U+1E934", "U+1E935", "U+1E936",
    "U+1E937", "U+1E938", "U+1E939", "U+1E93A", "U+1E93B", "U+1E93C", "U+1E93D", "U+1E93E",
    "U+1E93F", "U+1E940", "U+1E941", "U+1E942", "U+1E943", "U+1F130", "U+1F131", "U+1F132",
    "U+1F133", "U+1F134", "U+1F135", "U+1F136", "U+1F137", "U+1F138", "U+1F139", "U+1F13A",
    "U+1F13B", "U+1F13C", "U+1F13D", "U+1F13E", "U+1F13F", "U+1F140", "U+1F141", "U+1F142",
    "U+1F143", "U+1F144", "U+1F145", "U+1F146", "U+1F147", "U+1F148", "U+1F149", "U+1F150",
    "U+1F151", "U+1F152", "U+1F153", "U+1F154", "U+1F155", "U+1F156", "U+1F157", "U+1F158",
    "U+1F159", "U+1F15A", "U+1F15B", "U+1F15C", "U+1F15D", "U+1F15E", "U+1F15F", "U+1F160",
    "U+1F161", "U+1F162", "U+1F163", "U+1F164", "U+1F165", "U+1F166", "U+1F167", "U+1F168",
    "U+1F169", "U+1F170", "U+1F171", "U+1F172", "U+1F173", "U+1F174", "U+1F175", "U+1F176",
    "U+1F177", "U+1F178", "U+1F179", "U+1F17A", "U+1F17B", "U+1F17C", "U+1F17D", "U+1F17E",
    "U+1F17F", "U+1F180", "U+1F181", "U+1F182", "U+1F183", "U+1F184", "U+1F185", "U+1F186",
    "U+1F187", "U+1F188", "U+1F189"
  }

CaseIgnorableChars ==
  {
    "'", ".", ":", "^", "U+0060", "U+00A8", "U+00AD", "U+00AF", "U+00B4", "U+00B7", "U+00B8",
    "U+02B0", "U+02B1", "U+02B2", "U+02B3", "U+02B4", "U+02B5", "U+02B6", "U+02B7", "U+02B8",
    "U+02B9", "U+02BA", "U+02BB", "U+02BC", "U+02BD", "U+02BE", "U+02BF", "U+02C0", "U+02C1",
    "U+02C2", "U+02C3", "U+02C4", "U+02C5", "U+02C6", "U+02C7", "U+02C8", "U+02C9", "U+02CA",
    "U+02CB", "U+02CC", "U+02CD", "U+02CE", "U+02CF", "U+02D0", "U+02D1", "U+02D2", "U+02D3",
    "U+02D4", "U+02D5", "U+02D6", "U+02D7", "U+02D8", "U+02D9", "U+02DA", "U+02DB", "U+02DC",
    "U+02DD", "U+02DE", "U+02DF", "U+02E0", "U+02E1", "U+02E2", "U+02E3", "U+02E4", "U+02E5",
    "U+02E6", "U+02E7", "U+02E8", "U+02E9", "U+02EA", "U+02EB", "U+02EC", "U+02ED", "U+02EE",
    "U+02EF", "U+02F0", "U+02F1", "U+02F2", "U+02F3", "U+02F4", "U+02F5", "U+02F6", "U+02F7",
    "U+02F8", "U+02F9", "U+02FA", "U+02FB", "U+02FC", "U+02FD", "U+02FE", "U+02FF", "U+0300",
    "U+0301", "U+0302", "U+0303", "U+0304", "U+0305", "U+0306", "U+0307", "U+0308", "U+0309",
    "U+030A", "U+030B", "U+030C", "U+030D", "U+030E", "U+030F", "U+0310", "U+0311", "U+0312",
    "U+0313", "U+0314", "U+0315", "U+0316", "U+0317", "U+0318", "U+0319", "U+031A", "U+031B",
    "U+031C", "U+031D", "U+031E", "U+031F", "U+0320", "U+0321", "U+0322", "U+0323", "U+0324",
    "U+0325", "U+0326", "U+0327", "U+0328", "U+0329", "U+032A", "U+032B", "U+032C", "U+032D",
    "U+032E", "U+032F", "U+0330", "U+0331", "U+0332", "U+0333", "U+0334", "U+0335", "U+0336",
    "U+0337", "U+0338", "U+0339", "U+033A", "U+033B", "U+033C", "U+033D", "U+033E", "U+033F",
    "U+0340", "U+0341", "U+0342", "U+0343", "U+0344", "U+0345", "U+0346", "U+0347", "U+0348",
    "U+0349", "U+034A", "U+034B", "U+034C", "U+034D", "U+034E", "U+034F", "U+0350", "U+0351",
    "U+0352", "U+0353", "U+0354", "U+0355", "U+0356", "U+0357", "U+0358", "U+0359", "U+035A",
    "U+035B", "U+035C", "U+035D", "U+035E", "U+035F", "U+0360", "U+0361", "U+0362", "U+0363",
    "U+0364", "U+0365", "U+0366", "U+0367", "U+0368", "U+0369", "U+036A", "U+036B", "U+036C",
    "U+036D", "U+036E", "U+036F", "U+0374", "U+0375", "U+037A", "U+0384", "U+0385", "U+0387",
    "U+0483", "U+0484", "U+0485", "U+0486", "U+0487", "U+0488", "U+0489", "U+0559", "U+055F",
    "U+0591", "U+0592", "U+0593", "U+0594", "U+0595", "U+0596", "U+0597", "U+0598", "U+0599",
    "U+059A", "U+059B", "U+059C", "U+059D", "U+059E", "U+059F", "U+05A0", "U+05A1", "U+05A2",
    "U+05A3", "U+05A4", "U+05A5", "U+05A6", "U+05A7", "U+05A8", "U+05A9", "U+05AA", "U+05AB",
    "U+05AC", "U+05AD", "U+05AE", "U+05AF", "U+05B0", "U+05B1", "U+05B2", "U+05B3", "U+05B4",
    "U+05B5", "U+05B6", "U+05B7", "U+05B8", "U+05B9", "U+05BA", "U+05BB", "U+05BC", "U+05BD",
    "U+05BF", "U+05C1", "U+05C2", "U+05C4", "U+05C5", "U+05C7", "U+05F4", "U+0600", "U+0601",
    "U+0602", "U+0603", "U+0604", "U+0605", "U+0610", "U+0611", "U+0612", "U+0613", "U+0614",
    "U+0615", "U+0616", "U+0617", "U+0618", "U+0619", "U+061A", "U+061C", "U+0640", "U+064B",
    "U+064C", "U+064D", "U+064E", "U+064F", "U+0650", "U+0651", "U+0652", "U+0653", "U+0654",
    "U+0655", "U+0656", "U+0657", "U+0658", "U+0659", "U+065A", "U+065B", "U+065C", "U+065D",
    "U+065E", "U+065F", "U+0670", "U+06D6", "U+06D7", "U+06D8", "U+06D9", "U+06DA", "U+06DB",
    "U+06DC", "U+06DD", "U+06DF", "U+06E0", "U+06E1", "U+06E2", "U+06E3", "U+06E4", "U+06E5",
    "U+06E6", "U+06E7", "U+06E8", "U+06EA", "U+06EB", "U+06EC", "U+06ED", "U+070F", "U+0711",
    "U+0730", "U+0731", "U+0732", "U+0733", "U+0734", "U+0735", "U+0736", "U+0737", "U+0738",
    "U+0739", "U+073A", "U+073B", "U+073C", "U+073D", "U+073E", "U+073F", "U+0740", "U+0741",
    "U+0742", "U+0743", "U+0744", "U+0745", "U+0746", "U+0747", "U+0748", "U+0749", "U+074A",
    "U+07A6", "U+07A7", "U+07A8", "U+07A9", "U+07AA", "U+07AB", "U+07AC", "U+07AD", "U+07AE",
    "U+07AF", "U+07B0", "U+07EB", "U+07EC", "U+07ED", "U+07EE", "U+07EF", "U+07F0", "U+07F1",
    "U+07F2", "U+07F3", "U+07F4", "U+07F5", "U+07FA", "U+07FD", "U+0816", "U+0817", "U+0818",
    "U+0819", "U+081A", "U+081B", "U+081C", "U+081D", "U+081E", "U+081F", "U+0820", "U+0821",
    "U+0822", "U+0823", "U+0824", "U+0825", "U+0826", "U+0827", "U+0828", "U+0829", "U+082A",
    "U+082B", "U+082C", "U+082D", "U+0859", "U+085A", "U+085B", "U+0888", "U+0890", "U+0891",
    "U+0898", "U+0899", "U+089A", "U+089B", "U+089C", "U+089D", "U+089E", "U+089F", "U+08C9",
    "U+08CA", "U+08CB", "U+08CC", "U+08CD", "U+08CE", "U+08CF", "U+08D0", "U+08D1", "U+08D2",
    "U+08D3", "U+08D4", "U+08D5", "U+08D6", "U+08D7", "U+08D8", "U+08D9", "U+08DA", "U+08DB",
    "U+08DC", "U+08DD", "U+08DE", "U+08DF", "U+08E0", "U+08E1", "U+08E2", "U+08E3", "U+08E4",
    "U+08E5", "U+08E6", "U+08E7", "U+08E8", "U+08E9", "U+08EA", "U+08EB", "U+08EC", "U+08ED",
    "U+08EE", "U+08EF", "U+08F0", "U+08F1", "U+08F2", "U+08F3", "U+08F4", "U+08F5", "U+08F6",
    "U+08F7", "U+08F8", "U+08F9", "U+08FA", "U+08FB", "U+08FC", "U+08FD", "U+08FE", "U+08FF",
    "U+0900", "U+0901", "U+0902", "U+093A", "U+093C", "U+0941", "U+0942", "U+0943", "U+0944",
    "U+0945", "U+0946", "U+0947", "U+0948", "U+094D", "U+0951", "U+0952", "U+0953", "U+0954",
    "U+0955", "U+0956", "U+0957", "U+0962", "U+0963", "U+0971", "U+0981", "U+09BC", "U+09C1",
    "U+09C2", "U+09C3", "U+09C4", "U+09CD", "U+09E2", "U+09E3", "U+09FE", "U+0A01", "U+0A02",
    "U+0A3C", "U+0A41", "U+0A42", "U+0A47", "U+0A48", "U+0A4B", "U+0A4C", "U+0A4D", "U+0A51",
    "U+0A70", "U+0A71", "U+0A75", "U+0A81", "U+0A82", "U+0ABC", "U+0AC1", "U+0AC2", "U+0AC3",
    "U+0AC4", "U+0AC5", "U+0AC7", "U+0AC8", "U+0ACD", "U+0AE2", "U+0AE3", "U+0AFA", "U+0AFB",
    "U+0AFC", "U+0AFD", "U+0AFE", "U+0AFF", "U+0B01", "U+0B3C", "U+0B3F", "U+0B41", "U+0B42",
    "U+0B43", "U+0B44", "U+0B4D", "U+0B55", "U+0B56", "U+0B62", "U+0B63", "U+0B82", "U+0BC0",
    "U+0BCD", "U+0C00", "U+0C04", "U+0C3C", "U+0C3E", "U+0C3F", "U+0C40", "U+0C46", "U+0C47",
    "U+0C48", "U+0C4A", "U+0C4B", "U+0C4C", "U+0C4D", "U+0C55", "U+0C56", "U+0C62", "U+0C63",
    "U+0C81", "U+0CBC", "U+0CBF", "U+0CC6", "U+0CCC", "U+0CCD", "U+0CE2", "U+0CE3", "U+0D00",
    "U+0D01", "U+0D3B", "U+0D3C", "U+0D41", "U+0D42", "U+0D43", "U+0D44", "U+0D4D", "U+0D62",
    "U+0D63", "U+0D81", "U+0DCA", "U+0DD2", "U+0DD3", "U+0DD4", "U+0DD6", "U+0E31", "U+0E34",
    "U+0E35", "U+0E36", "U+0E37", "U+0E38", "U+0E39", "U+0E3A", "U+0E46", "U+0E47", "U+0E48",
    "U+0E49", "U+0E4A", "U+0E4B", "U+0E4C", "U+0E4D", "U+0E4E", "U+0EB1", "U+0EB4", "U+0EB5",
    "U+0EB6", "U+0EB7", "U+0EB8", "U+0EB9", "U+0EBA", "U+0EBB", "U+0EBC", "U+0EC6", "U+0EC8",
    "U+0EC9", "U+0ECA", "U+0ECB", "U+0ECC", "U+0ECD", "U+0F18", "U+0F19", "U+0F35", "U+0F37",
    "U+0F39", "U+0F71", "U+0F72", "U+0F73", "U+0F74", "U+0F75", "U+0F76", "U+0F77", "U+0F78",
    "U+0F79", "U+0F7A", "U+0F7B", "U+0F7C", "U+0F7D", "U+0F7E", "U+0F80", "U+0F81", "U+0F82",
    "U+0F83", "U+0F84", "U+0F86", "U+0F87", "U+0F8D", "U+0F8E", "U+0F8F", "U+0F90", "U+0F91",
    "U+0F92", "U+0F93", "U+0F94", "U+0F95", "U+0F96", "U+0F97", "U+0F99", "U+0F9A", "U+0F9B",
    "U+0F9C", "U+0F9D", "U+0F9E", "U+0F9F", "U+0FA0", "U+0FA1", "U+0FA2", "U+0FA3", "U+0FA4",
    "U+0FA5", "U+0FA6", "U+0FA7", "U+0FA8", "U+0FA9", "U+0FAA", "U+0FAB", "U+0FAC", "U+0FAD",
    "U+0FAE", "U+0FAF", "U+0FB0", "U+0FB1", "U+0FB2", "U+0FB3", "U+0FB4", "U+0FB5", "U+0FB6",
    "U+0FB7", "U+0FB8", "U+0FB9", "U+0FBA", "U+0FBB", "U+0FBC", "U+0FC6", "U+102D", "U+102E",
    "U+102F", "U+1030", "U+1032", "U+1033", "U+1034", "U+1035", "U+1036", "U+1037", "U+1039",
    "U+103A", "U+103D", "U+103E", "U+1058", "U+1059", "U+105E", "U+105F", "U+1060", "U+1071",
    "U+1072", "U+1073", "U+1074", "U+1082", "U+1085", "U+1086", "U+108D", "U+109D", "U+10FC",
    "U+135D", "U+135E", "U+135F", "U+1712", "U+1713", "U+1714", "U+1732", "U+1733", "U+1752",
    "U+1753", "U+1772", "U+1773", "U+17B4", "U+17B5", "U+17B7", "U+17B8", "U+17B9", "U+17BA",
    "U+17BB", "U+17BC", "U+17BD", "U+17C6", "U+17C9", "U+17CA", "U+17CB", "U+17CC", "U+17CD",
    "U+17CE", "U+17CF", "U+17D0", "U+17D1", "U+17D2", "U+17D3", "U+17D7", "U+17DD", "U+180B",
    "U+180C", "U+180D", "U+180E", "U+180F", "U+1843", "U+1885", "U+1886", "U+18A9", "U+1920",
    "U+1921", "U+1922", "U+1927", "U+1928", "U+1932", "U+1939", "U+193A", "U+193B", "U+1A17",
    "U+1A18", "U+1A1B", "U+1A56", "U+1A58", "U+1A59", "U+1A5A", "U+1A5B", "U+1A5C", "U+1A5D",
    "U+1A5E", "U+1A60", "U+1A62", "U+1A65", "U+1A66", "U+1A67", "U+1A68", "U+1A69", "U+1A6A",
    "U+1A6B", "U+1A6C", "U+1A73", "U+1A74", "U+1A75", "U+1A76", "U+1A77", "U+1A78", "U+1A79",
    "U+1A7A", "U+1A7B", "U+1A7C", "U+1A7F", "U+1AA7", "U+1AB0", "U+1AB1", "U+1AB2", "U+1AB3",
    "U+1AB4", "U+1AB5", "U+1AB6", "U+1AB7", "U+1AB8", "U+1AB9", "U+1ABA", "U+1ABB", "U+1ABC",
    "U+1ABD", "U+1ABE", "U+1ABF", "U+1AC0", "U+1AC1", "U+1AC2", "U+1AC3", "U+1AC4", "U+1AC5",
    "U+1AC6", "U+1AC7", "U+1AC8", "U+1AC9", "U+1ACA", "U+1ACB", "U+1ACC", "U+1ACD", "U+1ACE",
    "U+1B00", "U+1B01", "U+1B02", "U+1B03", "U+1B34", "U+1B36", "U+1B37", "U+1B38", "U+1B39",
    "U+1B3A", "U+1B3C", "U+1B42", "U+1B6B", "U+1B6C", "U+1B6D", "U+1B6E", "U+1B6F", "U+1B70",
    "U+1B71", "U+1B72", "U+1B73", "U+1B80", "U+1B81", "U+1BA2", "U+1BA3", "U+1BA4", "U+1BA5",
    "U+1BA8", "U+1BA9", "U+1BAB", "U+1BAC", "U+1BAD", "U+1BE6", "U+1BE8", "U+1BE9", "U+1BED",
    "U+1BEF", "U+1BF0", "U+1BF1", "U+1C2C", "U+1C2D", "U+1C2E", "U+1C2F", "U+1C30", "U+1C31",
    "U+1C32", "U+1C33", "U+1C36", "U+1C37", "U+1C78", "U+1C79", "U+1C7A", "U+1C7B", "U+1C7C",
    "U+1C7D", "U+1CD0", "U+1CD1", "U+1CD2", "U+1CD4", "U+1CD5", "U+1CD6", "U+1CD7", "U+1CD8",
    "U+1CD9", "U+1CDA", "U+1CDB", "U+1CDC", "U+1CDD", "U+1CDE", "U+1CDF", "U+1CE0", "U+1CE2",
    "U+1CE3", "U+1CE4", "U+1CE5", "U+1CE6", "U+1CE7", "U+1CE8", "U+1CED", "U+1CF4", "U+1CF8",
    "U+1CF9", "U+1D2C", "U+1D2D", "U+1D2E", "U+1D2F", "U+1D30", "U+1D31", "U+1D32", "U+1D33",
    "U+1D34", "U+1D35", "U+1D36", "U+1D37", "U+1D38", "U+1D39", "U+1D3A", "U+1D3B", "U+1D3C",
    "U+1D3D", "U+1D3E", "U+1D3F", "U+1D40", "U+1D41", "U+1D42", "U+1D43", "U+1D44", "U+1D45",
    "U+1D46", "U+1D47", "U+1D48", "U+1D49", "U+1D4A", "U+1D4B", "U+1D4C", "U+1D4D", "U+1D4E",
    "U+1D4F", "U+1D50", "U+1D51", "U+1D52", "U+1D53", "U+1D54", "U+1D55", "U+1D56", "U+1D57",
    "U+1D58", "U+1D59", "U+1D5A", "U+1D5B", "U+1D5C", "U+1D5D", "U+1D5E", "U+1D5F", "U+1D60",
    "U+1D61", "U+1D62", "U+1D63", "U+1D64", "U+1D65", "U+1D66", "U+1D67", "U+1D68", "U+1D69",
    "U+1D6A", "U+1D78", "U+1D9B", "U+1D9C", "U+1D9D", "U+1D9E", "U+1D9F", "U+1DA0", "U+1DA1",
    "U+1DA2", "U+1DA3", "U+1DA4", "U+1DA5", "U+1DA6", "U+1DA7", "U+1DA8", "U+1DA9", "U+1DAA",
    "U+1DAB", "U+1DAC", "U+1DAD", "U+1DAE", "U+1DAF", "U+1DB0", "U+1DB1", "U+1DB2", "U+1DB3",
    "U+1DB4", "U+1DB5", "U+1DB6", "U+1DB7", "U+1DB8", "U+1DB9", "U+1DBA", "U+1DBB", "U+1DBC",
    "U+1DBD", "U+1DBE", "U+1DBF", "U+1DC0", "U+1DC1", "U+1DC2", "U+1DC3", "U+1DC4", "U+1DC5",
    "U+1DC6", "U+1DC7", "U+1DC8", "U+1DC9", "U+1DCA", "U+1DCB", "U+1DCC", "U+1DCD", "U+1DCE",
    "U+1DCF", "U+1DD0", "U+1DD1", "U+1DD2", "U+1DD3", "U+1DD4", "U+1DD5", "U+1DD6", "U+1DD7",
    "U+1DD8", "U+1DD9", "U+1DDA", "U+1DDB", "U+1DDC", "U+1DDD", "U+1DDE", "U+1DDF", "U+1DE0",
    "U+1DE1", "U+1DE2", "U+1DE3", "U+1DE4", "U+1DE5", "U+1DE6", "U+1DE7", "U+1DE8", "U+1DE9",
    "U+1DEA", "U+1DEB", "U+1DEC", "U+1DED", "U+1DEE", "U+1DEF", "U+1DF0", "U+1DF1", "U+1DF2",
    "U+1DF3", "U+1DF4", "U+1DF5", "U+1DF6", "U+1DF7", "U+1DF8", "U+1DF9", "U+1DFA", "U+1DFB",
    "U+1DFC", "U+1DFD", "U+1DFE", "U+1DFF", "U+1FBD", "U+1FBF", "U+1FC0", "U+1FC1", "U+1FCD",
    "U+1FCE", "U+1FCF", "U+1FDD", "U+1FDE", "U+1FDF", "U+1FED", "U+1FEE", "U+1FEF", "U+1FFD",
    "U+1FFE", "U+200B", "U+200C", "U+200D", "U+200E", "U+200F", "U+2018", "U+2019", "U+2024",
    "U+2027", "U+202A", "U+202B", "U+202C", "U+202D", "U+202E", "U+2060", "U+2061", "U+2062",
    "U+2063", "U+2064", "U+2066", "U+2067", "U+2068", "U+2069", "U+206A", "U+206B", "U+206C",
    "U+206D", "U+206E", "U+206F", "U+2071", "U+207F", "U+2090", "U+2091", "U+2092", "U+2093",
    "U+2094", "U+2095", "U+2096", "U+2097", "U+2098", "U+2099", "U+209A", "U+209B", "U+209C",
    "U+20D0", "U+20D1", "U+20D2", "U+20D3", "U+20D4", "U+20D5", "U+20D6", "U+20D7", "U+20D8",
    "U+20D9", "U+20DA", "U+20DB", "U+20DC", "U+20DD", "U+20DE", "U+20DF", "U+20E0", "U+20E1",
    "U+20E2", "U+20E3", "U+20E4", "U+20E5", "U+20E6", "U+20E7", "U+20E8", "U+20E9", "U+20EA",
    "U+20EB", "U+20EC", "U+20ED", "U+20EE", "U+20EF", "U+20F0", "U+2C7C", "U+2C7D", "U+2CEF",
    "U+2CF0", "U+2CF1", "U+2D6F", "U+2D7F", "U+2DE0", "U+2DE1", "U+2DE2", "U+2DE3", "U+2DE4",
    "U+2DE5", "U+2DE6", "U+2DE7", "U+2DE8", "U+2DE9", "U+2DEA", "U+2DEB", "U+2DEC", "U+2DED",
    "U+2DEE", "U+2DEF", "U+2DF0", "U+2DF1", "U+2DF2", "U+2DF3", "U+2DF4", "U+2DF5", "U+2DF6",
    "U+2DF7", "U+2DF8", "U+2DF9", "U+2DFA", "U+2DFB", "U+2DFC", "U+2DFD", "U+2DFE", "U+2DFF",
    "U+2E2F", "U+3005", "U+302A", "U+302B", "U+302C", "U+302D", "U+3031", "U+3032", "U+3033",
    "U+3034", "U+3035", "U+303B", "U+3099", "U+309A", "U+309B", "U+309C", "U+309D", "U+309E",
    "U+30FC", "U+30FD", "U+30FE", "U+A015", "U+A4F8", "U+A4F9", "U+A4FA", "U+A4FB", "U+A4FC",
    "U+A4FD", "U+A60C", "U+A66F", "U+A670", "U+A671", "U+A672", "U+A674", "U+A675", "U+A676",
    "U+A677", "U+A678", "U+A679", "U+A67A", "U+A67B", "U+A67C", "U+A67D", "U+A67F", "U+A69C",
    "U+A69D", "U+A69E", "U+A69F", "U+A6F0", "U+A6F1", "U+A700", "U+A701", "U+A702", "U+A703",
    "U+A704", "U+A705", "U+A706", "U+A707", "U+A708", "U+A709", "U+A70A", "U+A70B", "U+A70C",
    "U+A70D", "U+A70E", "U+A70F", "U+A710", "U+A711", "U+A712", "U+A713", "U+A714", "U+A715",
    "U+A716", "U+A717", "U+A718", "U+A719", "U+A71A", "U+A71B", "U+A71C", "U+A71D", "U+A71E",
    "U+A71F", "U+A720", "U+A721", "U+A770", "U+A788", "U+A789", "U+A78A", "U+A7F2", "U+A7F3",
    "U+A7F4", "U+A7F8", "U+A7F9", "U+A802", "U+A806", "U+A80B", "U+A825", "U+A826", "U+A82C",
    "U+A8C4", "U+A8C5", "U+A8E0", "U+A8E1", "U+A8E2", "U+A8E3", "U+A8E4", "U+A8E5", "U+A8E6",
    "U+A8E7", "U+A8E8", "U+A8E9", "U+A8EA", "U+A8EB", "U+A8EC", "U+A8ED", "U+A8EE", "U+A8EF",
    "U+A8F0", "U+A8F1", "U+A8FF", "U+A926", "U+A927", "U+A928", "U+A929", "U+A92A", "U+A92B",
    "U+A92C", "U+A92D", "U+A947", "U+A948", "U+A949", "U+A94A", "U+A94B", "U+A94C", "U+A94D",
    "U+A94E", "U+A94F", "U+A950", "U+A951", "U+A980", "U+A981", "U+A982", "U+A9B3", "U+A9B6",
    "U+A9B7", "U+A9B8", "U+A9B9", "U+A9BC", "U+A9BD", "U+A9CF", "U+A9E5", "U+A9E6", "U+AA29",
    "U+AA2A", "U+AA2B", "U+AA2C", "U+AA2D", "U+AA2E", "U+AA31", "U+AA32", "U+AA35", "U+AA36",
    "U+AA43", "U+AA4C", "U+AA70", "U+AA7C", "U+AAB0", "U+AAB2", "U+AAB3", "U+AAB4", "U+AAB7",
    "U+AAB8", "U+AABE", "U+AABF", "U+AAC1", "U+AADD", "U+AAEC", "U+AAED", "U+AAF3", "U+AAF4",
    "U+AAF6", "U+AB5B", "U+AB5C", "U+AB5D", "U+AB5E", "U+AB5F", "U+AB69", "U+AB6A", "U+AB6B",
    "U+ABE5", "U+ABE8", "U+ABED", "U+FB1E", "U+FBB2", "U+FBB3", "U+FBB4", "U+FBB5", "U+FBB6",
    "U+FBB7", "U+FBB8", "U+FBB9", "U+FBBA", "U+FBBB", "U+FBBC", "U+FBBD", "U+FBBE", "U+FBBF",
    "U+FBC0", "U+FBC1", "U+FBC2", "U+FE00", "U+FE01", "U+FE02", "U+FE03", "U+FE04", "U+FE05",
    "U+FE06", "U+FE07", "U+FE08", "U+FE09", "U+FE0A", "U+FE0B", "U+FE0C", "U+FE0D", "U+FE0E",
    "U+FE0F", "U+FE13", "U+FE20", "U+FE21", "U+FE22", "U+FE23", "U+FE24", "U+FE25", "U+FE26",
    "U+FE27", "U+FE28", "U+FE29", "U+FE2A", "U+FE2B", "U+FE2C", "U+FE2D", "U+FE2E", "U+FE2F",
    "U+FE52", "U+FE55", "U+FEFF", "U+FF07", "U+FF0E", "U+FF1A", "U+FF3E", "U+FF40", "U+FF70",
    "U+FF9E", "U+FF9F", "U+FFE3", "U+FFF9", "U+FFFA", "U+FFFB", "U+101FD", "U+102E0",
    "U+10376", "U+10377", "U+10378", "U+10379", "U+1037A", "U+10780", "U+10781", "U+10782",
    "U+10783", "U+10784", "U+10785", "U+10787", "U+10788", "U+10789", "U+1078A", "U+1078B",
    "U+1078C", "U+1078D", "U+1078E", "U+1078F", "U+10790", "U+10791", "U+10792", "U+10793",
    "U+10794", "U+10795", "U+10796", "U+10797", "U+10798", "U+10799", "U+1079A", "U+1079B",
    "U+1079C", "U+1079D", "U+1079E", "U+1079F", "U+107A0", "U+107A1", "U+107A2", "U+107A3",
    "U+107A4", "U+107A5", "U+107A6", "U+107A7", "U+107A8", "U+107A9", "U+107AA", "U+107AB",
    "U+107AC", "U+107AD", "U+107AE", "U+107AF", "U+107B0", "U+107B2", "U+107B3", "U+107B4",
    "U+107B5", "U+107B6", "U+107B7", "U+107B8", "U+107B9", "U+107BA", "U+10A01", "U+10A02",
    "U+10A03", "U+10A05", "U+10A06", "U+10A0C", "U+10A0D", "U+10A0E", "U+10A0F", "U+10A38",
    "U+10A39", "U+10A3A", "U+10A3F", "U+10AE5", "U+10AE6", "U+10D24", "U+10D25", "U+10D26",
    "U+10D27", "U+10EAB", "U+10EAC", "U+10F46", "U+10F47", "U+10F48", "U+10F49", "U+10F4A",
    "U+10F4B", "U+10F4C", "U+10F4D", "U+10F4E", "U+10F4F", "U+10F50", "U+10F82", "U+10F83",
    "U+10F84", "U+10F85", "U+11001", "U+11038", "U+11039", "U+1103A", "U+1103B", "U+1103C",
    "U+1103D", "U+1103E", "U+1103F", "U+11040", "U+11041", "U+11042", "U+11043", "U+11044",
    "U+11045", "U+11046", "U+11070", "U+11073", "U+11074", "U+1107F", "U+11080", "U+11081",
    "U+110B3", "U+110B4", "U+110B5", "U+110B6", "U+110B9", "U+110BA", "U+110BD", "U+110C2",
    "U+110CD", "U+11100", "U+11101", "U+11102", "U+11127", "U+11128", "U+11129", "U+1112A",
    "U+1112B", "U+1112D", "U+1112E", "U+1112F", "U+11130", "U+11131", "U+11132", "U+11133",
    "U+11134", "U+11173", "U+11180", "U+11181", "U+111B6", "U+111B7", "U+111B8", "U+111B9",
    "U+111BA", "U+111BB", "U+111BC", "U+111BD", "U+111BE", "U+111C9", "U+111CA", "U+111CB",
    "U+111CC", "U+111CF", "U+1122F", "U+11230", "U+11231", "U+11234", "U+11236", "U+11237",
    "U+1123E", "U+112DF", "U+112E3", "U+112E4", "U+112E5", "U+112E6", "U+112E7", "U+112E8",
    "U+112E9", "U+112EA", "U+11300", "U+11301", "U+1133B", "U+1133C", "U+11340", "U+11366",
    "U+11367", "U+11368", "U+11369", "U+1136A", "U+1136B", "U+1136C", "U+11370", "U+11371",
    "U+11372", "U+11373", "U+11374", "U+11438", "U+11439", "U+1143A", "U+1143B", "U+1143C",
    "U+1143D", "U+1143E", "U+1143F", "U+11442", "U+11443", "U+11444", "U+11446", "U+1145E",
    "U+114B3", "U+114B4", "U+114B5", "U+114B6", "U+114B7", "U+114B8", "U+114BA", "U+114BF",
    "U+114C0", "U+114C2", "U+114C3", "U+115B2", "U+115B3", "U+115B4", "U+115B5", "U+115BC",
    "U+115BD", "U+115BF", "U+115C0", "U+115DC", "U+115DD", "U+11633", "U+11634", "U+11635",
    "U+11636", "U+11637", "U+11638", "U+11639", "U+1163A", "U+1163D", "U+1163F", "U+11640",
    "U+116AB", "U+116AD", "U+116B0", "U+116B1", "U+116B2", "U+116B3", "U+116B4", "U+116B5",
    "U+116B7", "U+1171D", "U+1171E", "U+1171F", "U+11722", "U+11723", "U+11724", "U+11725",
    "U+11727", "U+11728", "U+11729", "U+1172A", "U+1172B", "U+1182F", "U+11830", "U+11831",
    "U+11832", "U+11833", "U+11834", "U+11835", "U+11836", "U+11837", "U+11839", "U+1183A",
    "U+1193B", "U+1193C", "U+1193E", "U+11943", "U+119D4", "U+119D5", "U+119D6", "U+119D7",
    "U+119DA", "U+119DB", "U+119E0", "U+11A01", "U+11A02", "U+11A03", "U+11A04", "U+11A05",
    "U+11A06", "U+11A07", "U+11A08", "U+11A09", "U+11A0A", "U+11A33", "U+11A34", "U+11A35",
    "U+11A36", "U+11A37", "U+11A38", "U+11A3B", "U+11A3C", "U+11A3D", "U+11A3E", "U+11A47",
    "U+11A51", "U+11A52", "U+11A53", "U+11A54", "U+11A55", "U+11A56", "U+11A59", "U+11A5A",
    "U+11A5B", "U+11A8A", "U+11A8B", "U+11A8C", "U+11A8D", "U+11A8E", "U+11A8F", "U+11A90",
    "U+11A91", "U+11A92", "U+11A93", "U+11A94", "U+11A95", "U+11A96", "U+11A98", "U+11A99",
    "U+11C30", "U+11C31", "U+11C32", "U+11C33", "U+11C34", "U+11C35", "U+11C36", "U+11C38",
    "U+11C39", "U+11C3A", "U+11C3B", "U+11C3C", "U+11C3D", "U+11C3F", "U+11C92", "U+11C93",
    "U+11C94", "U+11C95", "U+11C96", "U+11C97", "U+11C98", "U+11C99", "U+11C9A", "U+11C9B",
    "U+11C9C", "U+11C9D", "U+11C9E", "U+11C9F", "U+11CA0", "U+11CA1", "U+11CA2", "U+11CA3",
    "U+11CA4", "U+11CA5", "U+11CA6", "U+11CA7", "U+11CAA", "U+11CAB", "U+11CAC", "U+11CAD",
    "U+11CAE", "U+11CAF", "U+11CB0", "U+11CB2", "U+11CB3", "U+11CB5", "U+11CB6", "U+11D31",
    "U+11D32", "U+11D33", "U+11D34", "U+11D35", "U+11D36", "U+11D3A", "U+11D3C", "U+11D3D",
    "U+11D3F", "U+11D40", "U+11D41", "U+11D42", "U+11D43", "U+11D44", "U+11D45", "U+11D47",
    "U+11D90", "U+11D91", "U+11D95", "U+11D97", "U+11EF3", "U+11EF4", "U+13430", "U+13431",
    "U+13432", "U+13433", "U+13434", "U+13435", "U+13436", "U+13437", "U+13438", "U+16AF0",
    "U+16AF1", "U+16AF2", "U+16AF3", "U+16AF4", "U+16B30", "U+16B31", "U+16B32", "U+16B33",
    "U+16B34", "U+16B35", "U+16B36", "U+16B40", "U+16B41", "U+16B42", "U+16B43", "U+16F4F",
    "U+16F8F", "U+16F90", "U+16F91", "U+16F92", "U+16F93", "U+16F94", "U+16F95", "U+16F96",
    "U+16F97", "U+16F98", "U+16F99", "U+16F9A", "U+16F9B", "U+16F9C", "U+16F9D", "U+16F9E",
    "U+16F9F", "U+16FE0", "U+16FE1", "U+16FE3", "U+16FE4", "U+1AFF0", "U+1AFF1", "U+1AFF2",
    "U+1AFF3", "U+1AFF5", "U+1AFF6", "U+1AFF7", "U+1AFF8", "U+1AFF9", "U+1AFFA", "U+1AFFB",
    "U+1AFFD", "U+1AFFE", "U+1BC9D", "U+1BC9E", "U+1BCA0", "U+1BCA1", "U+1BCA2", "U+1BCA3",
    "U+1CF00", "U+1CF01", "U+1CF02", "U+1CF03", "U+1CF04", "U+1CF05", "U+1CF06", "U+1CF07",
    "U+1CF08", "U+1CF09", "U+1CF0A", "U+1CF0B", "U+1CF0C", "U+1CF0D", "U+1CF0E", "U+1CF0F",
    "U+1CF10", "U+1CF11", "U+1CF12", "U+1CF13", "U+1CF14", "U+1CF15", "U+1CF16", "U+1CF17",
    "U+1CF18", "U+1CF19", "U+1CF1A", "U+1CF1B", "U+1CF1C", "U+1CF1D", "U+1CF1E", "U+1CF1F",
    "U+1CF20", "U+1CF21", "U+1CF22", "U+1CF23", "U+1CF24", "U+1CF25", "U+1CF26", "U+1CF27",
    "U+1CF28", "U+1CF29", "U+1CF2A", "U+1CF2B", "U+1CF2C", "U+1CF2D", "U+1CF30", "U+1CF31",
    "U+1CF32", "U+1CF33", "U+1CF34", "U+1CF35", "U+1CF36", "U+1CF37", "U+1CF38", "U+1CF39",
    "U+1CF3A", "U+1CF3B", "U+1CF3C", "U+1CF3D", "U+1CF3E", "U+1CF3F", "U+1CF40", "U+1CF41",
    "U+1CF42", "U+1CF43", "U+1CF44", "U+1CF45", "U+1CF46", "U+1D167", "U+1D168", "U+1D169",
    "U+1D173", "U+1D174", "U+1D175", "U+1D176", "U+1D177", "U+1D178", "U+1D179", "U+1D17A",
    "U+1D17B", "U+1D17C", "U+1D17D", "U+1D17E", "U+1D17F", "U+1D180", "U+1D181", "U+1D182",
    "U+1D185", "U+1D186", "U+1D187", "U+1D188", "U+1D189", "U+1D18A", "U+1D18B", "U+1D1AA",
    "U+1D1AB", "U+1D1AC", "U+1D1AD", "U+1D242", "U+1D243", "U+1D244", "U+1DA00", "U+1DA01",
    "U+1DA02", "U+1DA03", "U+1DA04", "U+1DA05", "U+1DA06", "U+1DA07", "U+1DA08", "U+1DA09",
    "U+1DA0A", "U+1DA0B", "U+1DA0C", "U+1DA0D", "U+1DA0E", "U+1DA0F", "U+1DA10", "U+1DA11",
    "U+1DA12", "U+1DA13", "U+1DA14", "U+1DA15", "U+1DA16", "U+1DA17", "U+1DA18", "U+1DA19",
    "U+1DA1A", "U+1DA1B", "U+1DA1C", "U+1DA1D", "U+1DA1E", "U+1DA1F", "U+1DA20", "U+1DA21",
    "U+1DA22", "U+1DA23", "U+1DA24", "U+1DA25", "U+1DA26", "U+1DA27", "U+1DA28", "U+1DA29",
    "U+1DA2A", "U+1DA2B", "U+1DA2C", "U+1DA2D", "U+1DA2E", "U+1DA2F", "U+1DA30", "U+1DA31",
    "U+1DA32", "U+1DA33", "U+1DA34", "U+1DA35", "U+1DA36", "U+1DA3B", "U+1DA3C", "U+1DA3D",
    "U+1DA3E", "U+1DA3F", "U+1DA40", "U+1DA41", "U+1DA42", "U+1DA43", "U+1DA44", "U+1DA45",
    "U+1DA46", "U+1DA47", "U+1DA48", "U+1DA49", "U+1DA4A", "U+1DA4B", "U+1DA4C", "U+1DA4D",
    "U+1DA4E", "U+1DA4F", "U+1DA50", "U+1DA51", "U+1DA52", "U+1DA53", "U+1DA54", "U+1DA55",
    "U+1DA56", "U+1DA57", "U+1DA58", "U+1DA59", "U+1DA5A", "U+1DA5B", "U+1DA5C", "U+1DA5D",
    "U+1DA5E", "U+1DA5F", "U+1DA60", "U+1DA61", "U+1DA62", "U+1DA63", "U+1DA64", "U+1DA65",
    "U+1DA66", "U+1DA67", "U+1DA68", "U+1DA69", "U+1DA6A", "U+1DA6B", "U+1DA6C", "U+1DA75",
    "U+1DA84", "U+1DA9B", "U+1DA9C", "U+1DA9D", "U+1DA9E", "U+1DA9F", "U+1DAA1", "U+1DAA2",
    "U+1DAA3", "U+1DAA4", "U+1DAA5", "U+1DAA6", "U+1DAA7", "U+1DAA8", "U+1DAA9", "U+1DAAA",
    "U+1DAAB", "U+1DAAC", "U+1DAAD", "U+1DAAE", "U+1DAAF", "U+1E000", "U+1E001", "U+1E002",
    "U+1E003", "U+1E004", "U+1E005", "U+1E006", "U+1E008", "U+1E009", "U+1E00A", "U+1E00B",
    "U+1E00C", "U+1E00D", "U+1E00E", "U+1E00F", "U+1E010", "U+1E011", "U+1E012", "U+1E013",
    "U+1E014", "U+1E015", "U+1E016", "U+1E017", "U+1E018", "U+1E01B", "U+1E01C", "U+1E01D",
    "U+1E01E", "U+1E01F", "U+1E020", "U+1E021", "U+1E023", "U+1E024", "U+1E026", "U+1E027",
    "U+1E028", "U+1E029", "U+1E02A", "U+1E130", "U+1E131", "U+1E132", "U+1E133", "U+1E134",
    "U+1E135", "U+1E136", "U+1E137", "U+1E138", "U+1E139", "U+1E13A", "U+1E13B", "U+1E13C",
    "U+1E13D", "U+1E2AE", "U+1E2EC", "U+1E2ED", "U+1E2EE", "U+1E2EF", "U+1E8D0", "U+1E8D1",
    "U+1E8D2", "U+1E8D3", "U+1E8D4", "U+1E8D5", "U+1E8D6", "U+1E944", "U+1E945", "U+1E946",
    "U+1E947", "U+1E948", "U+1E949", "U+1E94A", "U+1E94B", "U+1F3FB", "U+1F3FC", "U+1F3FD",
    "U+1F3FE", "U+1F3FF", "U+E0001", "U+E0020", "U+E0021", "U+E0022", "U+E0023", "U+E0024",
    "U+E0025", "U+E0026", "U+E0027", "U+E0028", "U+E0029", "U+E002A", "U+E002B", "U+E002C",
    "U+E002D", "U+E002E", "U+E002F", "U+E0030", "U+E0031", "U+E0032", "U+E0033", "U+E0034",
    "U+E0035", "U+E0036", "U+E0037", "U+E0038", "U+E0039", "U+E003A", "U+E003B", "U+E003C",
    "U+E003D", "U+E003E", "U+E003F", "U+E0040", "U+E0041", "U+E0042", "U+E0043", "U+E0044",
    "U+E0045", "U+E0046", "U+E0047", "U+E0048", "U+E0049", "U+E004A", "U+E004B", "U+E004C",
    "U+E004D", "U+E004E", "U+E004F", "U+E0050", "U+E0051", "U+E0052", "U+E0053", "U+E0054",
    "U+E0055", "U+E0056", "U+E0057", "U+E0058", "U+E0059", "U+E005A", "U+E005B", "U+E005C",
    "U+E005D", "U+E005E", "U+E005F", "U+E0060", "U+E0061", "U+E0062", "U+E0063", "U+E0064",
    "U+E0065", "U+E0066", "U+E0067", "U+E0068", "U+E0069", "U+E006A", "U+E006B", "U+E006C",
    "U+E006D", "U+E006E", "U+E006F", "U+E0070", "U+E0071", "U+E0072", "U+E0073", "U+E0074",
    "U+E0075", "U+E0076", "U+E0077", "U+E0078", "U+E0079", "U+E007A", "U+E007B", "U+E007C",
    "U+E007D", "U+E007E", "U+E007F", "U+E0100", "U+E0101", "U+E0102", "U+E0103", "U+E0104",
    "U+E0105", "U+E0106", "U+E0107", "U+E0108", "U+E0109", "U+E010A", "U+E010B", "U+E010C",
    "U+E010D", "U+E010E", "U+E010F", "U+E0110", "U+E0111", "U+E0112", "U+E0113", "U+E0114",
    "U+E0115", "U+E0116", "U+E0117", "U+E0118", "U+E0119", "U+E011A", "U+E011B", "U+E011C",
    "U+E011D", "U+E011E", "U+E011F", "U+E0120", "U+E0121", "U+E0122", "U+E0123", "U+E0124",
    "U+E0125", "U+E0126", "U+E0127", "U+E0128", "U+E0129", "U+E012A", "U+E012B", "U+E012C",
    "U+E012D", "U+E012E", "U+E012F", "U+E0130", "U+E0131", "U+E0132", "U+E0133", "U+E0134",
    "U+E0135", "U+E0136", "U+E0137", "U+E0138", "U+E0139", "U+E013A", "U+E013B", "U+E013C",
    "U+E013D", "U+E013E", "U+E013F", "U+E0140", "U+E0141", "U+E0142", "U+E0143", "U+E0144",
    "U+E0145", "U+E0146", "U+E0147", "U+E0148", "U+E0149", "U+E014A", "U+E014B", "U+E014C",
    "U+E014D", "U+E014E", "U+E014F", "U+E0150", "U+E0151", "U+E0152", "U+E0153", "U+E0154",
    "U+E0155", "U+E0156", "U+E0157", "U+E0158", "U+E0159", "U+E015A", "U+E015B", "U+E015C",
    "U+E015D", "U+E015E", "U+E015F", "U+E0160", "U+E0161", "U+E0162", "U+E0163", "U+E0164",
    "U+E0165", "U+E0166", "U+E0167", "U+E0168", "U+E0169", "U+E016A", "U+E016B", "U+E016C",
    "U+E016D", "U+E016E", "U+E016F", "U+E0170", "U+E0171", "U+E0172", "U+E0173", "U+E0174",
    "U+E0175", "U+E0176", "U+E0177", "U+E0178", "U+E0179", "U+E017A", "U+E017B", "U+E017C",
    "U+E017D", "U+E017E", "U+E017F", "U+E0180", "U+E0181", "U+E0182", "U+E0183", "U+E0184",
    "U+E0185", "U+E0186", "U+E0187", "U+E0188", "U+E0189", "U+E018A", "U+E018B", "U+E018C",
    "U+E018D", "U+E018E", "U+E018F", "U+E0190", "U+E0191", "U+E0192", "U+E0193", "U+E0194",
    "U+E0195", "U+E0196", "U+E0197", "U+E0198", "U+E0199", "U+E019A", "U+E019B", "U+E019C",
    "U+E019D", "U+E019E", "U+E019F", "U+E01A0", "U+E01A1", "U+E01A2", "U+E01A3", "U+E01A4",
    "U+E01A5", "U+E01A6", "U+E01A7", "U+E01A8", "U+E01A9", "U+E01AA", "U+E01AB", "U+E01AC",
    "U+E01AD", "U+E01AE", "U+E01AF", "U+E01B0", "U+E01B1", "U+E01B2", "U+E01B3", "U+E01B4",
    "U+E01B5", "U+E01B6", "U+E01B7", "U+E01B8", "U+E01B9", "U+E01BA", "U+E01BB", "U+E01BC",
    "U+E01BD", "U+E01BE", "U+E01BF", "U+E01C0", "U+E01C1", "U+E01C2", "U+E01C3", "U+E01C4",
    "U+E01C5", "U+E01C6", "U+E01C7", "U+E01C8", "U+E01C9", "U+E01CA", "U+E01CB", "U+E01CC",
    "U+E01CD", "U+E01CE", "U+E01CF", "U+E01D0", "U+E01D1", "U+E01D2", "U+E01D3", "U+E01D4",
    "U+E01D5", "U+E01D6", "U+E01D7", "U+E01D8", "U+E01D9", "U+E01DA", "U+E01DB", "U+E01DC",
    "U+E01DD", "U+E01DE", "U+E01DF", "U+E01E0", "U+E01E1", "U+E01E2", "U+E01E3", "U+E01E4",
    "U+E01E5", "U+E01E6", "U+E01E7", "U+E01E8", "U+E01E9", "U+E01EA", "U+E01EB", "U+E01EC",
    "U+E01ED", "U+E01EE", "U+E01EF"
  }

\* the nearest position from j backwards (forwards) that holds no case-ignorable character
IgnorableBack(s, j) ==
  IF j < 1 THEN j
  ELSE CHOOSE e \in 0..j :
         (e = 0 \/ s[e] \notin CaseIgnorableChars) /\ \A h \in (e + 1)..j : s[h] \in CaseIgnorableChars

IgnorableForth(s, j) ==
  IF j > Len(s) THEN j
  ELSE CHOOSE e \in j..(Len(s) + 1) :
         (e = Len(s) + 1 \/ s[e] \notin CaseIgnorableChars) /\ \A h \in j..(e - 1) : s[h] \in CaseIgnorableChars

CasedBefore(s, j) == j >= 1 /\ s[j] \in CasedChars

CasedAfter(s, j) == j <= Len(s) /\ s[j] \in CasedChars

FinalSigma(s, i) ==
  CasedBefore(s, IgnorableBack(s, i - 1)) /\ ~CasedAfter(s, IgnorableForth(s, i + 1))

\* what str.lower() makes of s[i]
LowerAt(s, i) ==
  IF s[i] = "U+03A3"
  THEN <<IF FinalSigma(s, i) THEN "U+03C2" ELSE "U+03C3">>
  ELSE LowerChar(s[i])

\* str.lower()
Lower(s) == Flatten([i \in 1..Len(s) |-> LowerAt(s, i)])

\* s[i-1:e-1] of Python, for 1-based i and exclusive end e
Slice(s, i, e) == SubSeq(s, i, e - 1)

\* s without its leading characters of cs
LStripSet(s, cs) ==
  LET n == CHOOSE k \in 0..Len(s) :
             (k = Len(s) \/ s[k + 1] \notin cs) /\ \A j \in 1..k : s[j] \in cs
  IN SubSeq(s, n + 1, Len(s))

\* s without its trailing characters of cs
RStripSet(s, cs) ==
  LET n == CHOOSE k \in 0..Len(s) :
             (k = 0 \/ s[k] \notin cs) /\ \A j \in (k + 1)..Len(s) : s[j] \in cs
  IN SubSeq(s, 1, n)

\* str.strip(chars)
StripChars(s, cs) == RStripSet(LStripSet(s, cs), cs)

\* str.strip()
Strip(s) == StripChars(s, Whitespace)

\* pat occurs in s at position i
OccursAt(s, i, pat) ==
  /\ i >= 1
  /\ i + Len(pat) - 1 <= Len(s)
  /\ \A j \in 1..Len(pat) : s[i + j - 1] = pat[j]

\* pat in s
Contains(s, pat) == \E i \in 1..(Len(s) + 1) : OccursAt(s, i, pat)

\* str.replace(old, new), old non-empty: left to right, non-overlapping
RECURSIVE Replace(_, _, _)
Replace(s, old, new) ==
  IF ~Contains(s, old) THEN s
  ELSE LET i == CHOOSE k \in 1..Len(s) :
                  OccursAt(s, k, old) /\ \A j \in 1..(k - 1) : ~OccursAt(s, j, old)
       IN SubSeq(s, 1, i - 1) \o new \o Replace(SubSeq(s, i + Len(old), Len(s)), old, new)

-----------------------------------------------------------------------------
(* Numbers *)

(* Big naturals: limbs in base 1000, least significant first, without a    *)
(* leading zero limb; zero is <<>>.                                        *)
Limb(a, i) == IF 1 <= i /\ i <= Len(a) THEN a[i] ELSE 0

BigTrim(c) ==
  SubSeq(c, 1, CHOOSE n \in 0..Len(c) :
                 (n = 0 \/ c[n] # 0) /\ \A j \in (n + 1)..Len(c) : c[j] = 0)

(* Limbs below 1999, the top one zero, brought below 1000: limb i takes a  *)
(* carry when the nearest limb below it that is not 999 is 1000 or more.   *)
Ripple(c) ==
  LET CarryIn(i) ==
        \E d \in 1..(i - 1) : c[i - d] >= 1000 /\ \A l \in (i - d + 1)..(i - 1) : c[l] = 999
  IN [i \in 1..Len(c) |-> (c[i] + (IF CarryIn(i) THEN 1 ELSE 0)) % 1000]

(* The big natural whose limbs, each below 2^31, are c.  Spread adds every *)
(* base-1000 digit of a limb where it belongs, which leaves limbs below    *)
(* 3000; Carry hands the thousands of each limb to the next one, which     *)
(* leaves limbs below 1002.                                                *)
BigNorm(c) ==
  LET Part(x, i, j) == (Limb(x, i) \div (IF j = 0 THEN 1 ELSE IF j = 1 THEN 1000 ELSE 1000000)) % 1000
      Spread(x) ==
        [i \in 1..Len(x) |->
           Part(x, i, 0) + Part(x, i - 1, 1) + Part(x, i - 2, 2) + (Limb(x, i - 3) \div 1000000000)]
          \o << Part(x, Len(x), 1) + Part(x, Len(x) - 1, 2) + (Limb(x, Len(x) - 2) \div 1000000000),
                Part(x, Len(x), 2) + (Limb(x, Len(x) - 1) \div 1000000000),
                Limb(x, Len(x)) \div 1000000000 >>
      Carry(x) ==
        [i \in 1..Len(x) |-> (x[i] % 1000) + (Limb(x, i - 1) \div 1000)]
          \o <<Limb(x, Len(x)) \div 1000, 0>>
  IN BigTrim(Ripple(Carry(Spread(c))))

BigAdd(a, b) ==
  BigTrim(Ripple([i \in 1..(IF Len(a) < Len(b) THEN Len(b) ELSE Len(a)) |-> Limb(a, i) + Limb(b, i)]
                   \o <<0>>))

BigLess(a, b) ==
  \/ Len(a) < Len(b)
  \/ /\ Len(a) = Len(b)
     /\ \E d \in 0..(Len(a) - 1) :
          a[Len(a) - d] < b[Len(a) - d] /\ \A j \in (Len(a) - d + 1)..Len(a) : a[j] = b[j]

(* a - b for b <= a: limb i borrows when a has the smaller limb at the     *)
(* nearest place below it where a and b differ                             *)
BigSub(a, b) ==
  LET BorrowIn(i) ==
        \E d \in 1..(i - 1) :
          Limb(a, i - d) < Limb(b, i - d) /\ \A l \in (i - d + 1)..(i - 1) : Limb(a, l) = Limb(b, l)
  IN BigTrim([i \in 1..Len(a) |->
               (a[i] - Limb(b, i) - (IF BorrowIn(i) THEN 1 ELSE 0) + 1000) % 1000])

\* the sum of a[i] * b[k + 1 - i] over lo <= i <= hi
RECURSIVE ConvSum(_, _, _, _, _)
ConvSum(a, b, k, lo, hi) ==
  IF lo > hi THEN 0
  ELSE IF lo = hi THEN a[lo] * b[k + 1 - lo]
  ELSE ConvSum(a, b, k, lo, (lo + hi) \div 2) + ConvSum(a, b, k, ((lo + hi) \div 2) + 1, hi)

\* a * b, the shorter of the two having fewer than 2000 limbs
BigMul(a, b) ==
  BigNorm([k \in 1..(Len(a) + Len(b)) |->
            ConvSum(a, b, k, IF k > Len(b) THEN k + 1 - Len(b) ELSE 1, IF k < Len(a) THEN k ELSE Len(a))])

\* a * 10^k
ShiftUp(a, k) ==
  BigTrim([i \in 1..(k \div 3) |-> 0]
            \o [i \in 1..(Len(a) + 1) |->
                 (Limb(a, i) % (1000 \div 10^(k % 3))) * 10^(k % 3)
                 + (Limb(a, i - 1) \div (1000 \div 10^(k % 3)))])

\* a div 10^k
ShiftDown(a, k) ==
  BigTrim([i \in 1..(Len(a) - (k \div 3)) |->
            (Limb(a, i + (k \div 3)) \div 10^(k % 3))
            + (Limb(a, i + (k \div 3) + 1) % 10^(k % 3)) * (1000 \div 10^(k % 3))])

\* 10^k divides a
EndsInZeros(a, k) ==
  /\ \A i \in 1..(k \div 3) : Limb(a, i) = 0
  /\ Limb(a, (k \div 3) + 1) % 10^(k % 3) = 0

\* the number of decimal digits of a
DecLen(a) ==
  IF a = <<>> THEN 0
  ELSE 3 * (Len(a) - 1) + (IF a[Len(a)] >= 100 THEN 3 ELSE IF a[Len(a)] >= 10 THEN 2 ELSE 1)

\* the decimal digit of a of weight 10^(p-1)
DecDigit(a, p) == (Limb(a, ((p - 1) \div 3) + 1) \div 10^((p - 1) % 3)) % 10

\* the number of zero digits a # 0 ends in
TrailingZeros(a) == CHOOSE z \in 0..DecLen(a) : EndsInZeros(a, z) /\ ~EndsInZeros(a, z + 1)

\* the big natural of decimal digits ds, most significant first
FromDigits(ds) ==
  LET DigitAt(p) == IF 1 <= p /\ p <= Len(ds) THEN ds[Len(ds) + 1 - p] ELSE 0
  IN BigTrim([i \in 1..((Len(ds) + 2) \div 3) |->
               DigitAt(3 * i - 2) + 10 * DigitAt(3 * i - 1) + 100 * DigitAt(3 * i)])

\* 2^p for p = 0 .. 127
Pow2Small ==
  <<
   <<1>>,
   <<2>>,
   <<4>>,
   <<8>>,
   <<16>>,
   <<32>>,
   <<64>>,
   <<128>>,
   <<256>>,
   <<512>>,
   <<24, 1>>,
   <<48, 2>>,
   <<96, 4>>,
   <<192, 8>>,
   <<384, 16>>,
   <<768, 32>>,
   <<536, 65>>,
   <<72, 131>>,
   <<144, 262>>,
   <<288, 524>>,
   <<576, 48, 1>>,
   <<152, 97, 2>>,
   <<304, 194, 4>>,
   <<608, 388, 8>>,
   <<216, 777, 16>>,
   <<432, 554, 33>>,
   <<864, 108, 67>>,
   <<728, 217, 134>>,
   <<456, 435, 268>>,
   <<912, 870, 536>>,
   <<824, 741, 73, 1>>,
   <<648, 483, 147, 2>>,
   <<296, 967, 294, 4>>,
   <<592, 934, 589, 8>>,
   <<184, 869, 179, 17>>,
   <<368, 738, 359, 34>>,
   <<736, 476, 719, 68>>,
   <<472, 953, 438, 137>>,
   <<944, 906, 877, 274>>,
   <<888, 813, 755, 549>>,
   <<776, 627, 511, 99, 1>>,
   <<552, 255, 23, 199, 2>>,
   <<104, 511, 46, 398, 4>>,
   <<208, 22, 93, 796, 8>>,
   <<416, 44, 186, 592, 17>>,
   <<832, 88, 372, 184, 35>>,
   <<664, 177, 744, 368, 70>>,
   <<328, 355, 488, 737, 140>>,
   <<656, 710, 976, 474, 281>>,
   <<312, 421, 953, 949, 562>>,
   <<624, 842, 906, 899, 125, 1>>,
   <<248, 685, 813, 799, 251, 2>>,
   <<496, 370, 627, 599, 503, 4>>,
   <<992, 740, 254, 199, 7, 9>>,
   <<984, 481, 509, 398, 14, 18>>,
   <<968, 963, 18, 797, 28, 36>>,
   <<936, 927, 37, 594, 57, 72>>,
   <<872, 855, 75, 188, 115, 144>>,
   <<744, 711, 151, 376, 230, 288>>,
   <<488, 423, 303, 752, 460, 576>>,
   <<976, 846, 606, 504, 921, 152, 1>>,
   <<952, 693, 213, 9, 843, 305, 2>>,
   <<904, 387, 427, 18, 686, 611, 4>>,
   <<808, 775, 854, 36, 372, 223, 9>>,
   <<616, 551, 709, 73, 744, 446, 18>>,
   <<232, 103, 419, 147, 488, 893, 36>>,
   <<464, 206, 838, 294, 976, 786, 73>>,
   <<928, 412, 676, 589, 952, 573, 147>>,
   <<856, 825, 352, 179, 905, 147, 295>>,
   <<712, 651, 705, 358, 810, 295, 590>>,
   <<424, 303, 411, 717, 620, 591, 180, 1>>,
   <<848, 606, 822, 434, 241, 183, 361, 2>>,
   <<696, 213, 645, 869, 482, 366, 722, 4>>,
   <<392, 427, 290, 739, 965, 732, 444, 9>>,
   <<784, 854, 580, 478, 931, 465, 889, 18>>,
   <<568, 709, 161, 957, 862, 931, 778, 37>>,
   <<136, 419, 323, 914, 725, 863, 557, 75>>,
   <<272, 838, 646, 828, 451, 727, 115, 151>>,
   <<544, 676, 293, 657, 903, 454, 231, 302>>,
   <<88, 353, 587, 314, 807, 909, 462, 604>>,
   <<176, 706, 174, 629, 614, 819, 925, 208, 1>>,
   <<352, 412, 349, 258, 229, 639, 851, 417, 2>>,
   <<704, 824, 698, 516, 458, 278, 703, 835, 4>>,
   <<408, 649, 397, 33, 917, 556, 406, 671, 9>>,
   <<816, 298, 795, 66, 834, 113, 813, 342, 19>>,
   <<632, 597, 590, 133, 668, 227, 626, 685, 38>>,
   <<264, 195, 181, 267, 336, 455, 252, 371, 77>>,
   <<528, 390, 362, 534, 672, 910, 504, 742, 154>>,
   <<56, 781, 724, 68, 345, 821, 9, 485, 309>>,
   <<112, 562, 449, 137, 690, 642, 19, 970, 618>>,
   <<224, 124, 899, 274, 380, 285, 39, 940, 237, 1>>,
   <<448, 248, 798, 549, 760, 570, 78, 880, 475, 2>>,
   <<896, 496, 596, 99, 521, 141, 157, 760, 951, 4>>,
   <<792, 993, 192, 199, 42, 283, 314, 520, 903, 9>>,
   <<584, 987, 385, 398, 84, 566, 628, 40, 807, 19>>,
   <<168, 975, 771, 796, 168, 132, 257, 81, 614, 39>>,
   <<336, 950, 543, 593, 337, 264, 514, 162, 228, 79>>,
   <<672, 900, 87, 187, 675, 528, 28, 325, 456, 158>>,
   <<344, 801, 175, 374, 350, 57, 57, 650, 912, 316>>,
   <<688, 602, 351, 748, 700, 114, 114, 300, 825, 633>>,
   <<376, 205, 703, 496, 401, 229, 228, 600, 650, 267, 1>>,
   <<752, 410, 406, 993, 802, 458, 456, 200, 301, 535, 2>>,
   <<504, 821, 812, 986, 605, 917, 912, 400, 602, 70, 5>>,
   <<8, 643, 625, 973, 211, 835, 825, 801, 204, 141, 10>>,
   <<16, 286, 251, 947, 423, 670, 651, 603, 409, 282, 20>>,
   <<32, 572, 502, 894, 847, 340, 303, 207, 819, 564, 40>>,
   <<64, 144, 5, 789, 695, 681, 606, 414, 638, 129, 81>>,
   <<128, 288, 10, 578, 391, 363, 213, 829, 276, 259, 162>>,
   <<256, 576, 20, 156, 783, 726, 426, 658, 553, 518, 324>>,
   <<512, 152, 41, 312, 566, 453, 853, 316, 107, 37, 649>>,
   <<24, 305, 82, 624, 132, 907, 706, 633, 214, 74, 298, 1>>,
   <<48, 610, 164, 248, 265, 814, 413, 267, 429, 148, 596, 2>>,
   <<96, 220, 329, 496, 530, 628, 827, 534, 858, 296, 192, 5>>,
   <<192, 440, 658, 992, 60, 257, 655, 69, 717, 593, 384, 10>>,
   <<384, 880, 316, 985, 121, 514, 310, 139, 434, 187, 769, 20>>,
   <<768, 760, 633, 970, 243, 28, 621, 278, 868, 374, 538, 41>>,
   <<536, 521, 267, 941, 487, 56, 242, 557, 736, 749, 76, 83>>,
   <<72, 43, 535, 882, 975, 112, 484, 114, 473, 499, 153, 166>>,
   <<144, 86, 70, 765, 951, 225, 968, 228, 946, 998, 306, 332>>,
   <<288, 172, 140, 530, 903, 451, 936, 457, 892, 997, 613, 664>>,
   <<576, 344, 280, 60, 807, 903, 872, 915, 784, 995, 227, 329, 1>>,
   <<152, 689, 560, 120, 614, 807, 745, 831, 569, 991, 455, 658, 2>>,
   <<304, 378, 121, 241, 228, 615, 491, 663, 139, 983, 911, 316, 5>>,
   <<608, 756, 242, 482, 456, 230, 983, 326, 279, 966, 823, 633, 10>>,
   <<216, 513, 485, 964, 912, 460, 966, 653, 558, 932, 647, 267, 21>>,
   <<432, 26, 971, 928, 825, 921, 932, 307, 117, 865, 295, 535, 42>>,
   <<864, 52, 942, 857, 651, 843, 865, 615, 234, 730, 591, 70, 85>>,
   <<728, 105, 884, 715, 303, 687, 731, 231, 469, 460, 183, 141, 170>>
  >>

\* 2^(32 p) for p = 0 .. 34
Pow2By32 ==
  <<
   <<1>>,
   <<296, 967, 294, 4>>,
   <<616, 551, 709, 73, 744, 446, 18>>,
   <<336, 950, 543, 593, 337, 264, 514, 162, 228, 79>>,
   <<456, 211, 768, 431, 607, 374, 463, 463, 938, 920, 366, 282, 340>>,
   <<976, 542, 932, 655, 19, 283, 716, 832, 684, 203, 918, 902, 330, 637,
     501, 461, 1>>,
   <<896, 512, 34, 464, 444, 355, 102, 416, 666, 207, 423, 789, 835, 763,
     680, 386, 735, 101, 277, 6>>,
   <<216, 249, 610, 103, 481, 572, 540, 422, 144, 637, 673, 630, 19, 87, 15,
     667, 794, 639, 150, 667, 946, 959, 26>>,
   <<936, 639, 129, 913, 7, 584, 457, 39, 564, 640, 665, 984, 269, 853, 907,
     687, 8, 985, 570, 423, 195, 316, 237, 89, 792, 115>>,
   <<56, 533, 375, 533, 12, 497, 159, 893, 976, 463, 440, 717, 347, 797,
     150, 456, 100, 840, 820, 146, 248, 382, 155, 642, 786, 409, 236, 323,
     497>>,
   <<576, 936, 86, 962, 22, 550, 640, 780, 725, 219, 822, 607, 41, 947, 769,
     652, 356, 522, 704, 602, 114, 552, 169, 706, 21, 395, 82, 910, 920, 35,
     987, 135, 2>>,
   <<496, 218, 746, 502, 440, 212, 74, 280, 232, 939, 353, 504, 691, 547,
     357, 355, 950, 494, 124, 673, 956, 259, 186, 763, 347, 208, 581, 283,
     443, 46, 286, 960, 463, 994, 173, 9>>,
   <<816, 306, 990, 627, 806, 640, 915, 884, 254, 266, 414, 611, 210, 497,
     771, 721, 245, 404, 293, 948, 667, 446, 465, 270, 739, 79, 805, 613,
     143, 100, 40, 279, 212, 479, 394, 196, 6, 402, 39>>,
   <<536, 889, 725, 979, 405, 278, 350, 983, 920, 112, 567, 872, 437, 248,
     531, 704, 495, 556, 882, 247, 590, 91, 870, 136, 992, 855, 838, 598,
     71, 196, 386, 389, 856, 318, 690, 331, 641, 303, 10, 328, 230, 169>>,
   <<656, 614, 628, 601, 534, 933, 177, 266, 606, 521, 762, 560, 565, 763,
     713, 50, 191, 326, 923, 397, 113, 288, 639, 180, 199, 490, 281, 60,
     318, 687, 360, 641, 353, 534, 4, 888, 807, 323, 549, 890, 606, 295,
     724, 838, 726>>,
   <<176, 290, 306, 285, 288, 679, 975, 447, 895, 622, 406, 121, 931, 826,
     159, 971, 491, 63, 103, 306, 120, 620, 765, 819, 738, 371, 625, 959,
     156, 859, 150, 971, 664, 142, 598, 748, 305, 166, 793, 229, 597, 381,
     231, 992, 315, 550, 748, 121, 3>>,
   <<96, 84, 6, 649, 433, 946, 569, 946, 811, 882, 753, 853, 50, 486, 186,
     858, 31, 690, 427, 903, 166, 298, 874, 801, 976, 546, 73, 30, 764, 721,
     443, 561, 723, 377, 393, 592, 820, 365, 479, 127, 846, 205, 998, 24,
     574, 99, 597, 942, 929, 807, 407, 13>>,
   <<416, 724, 345, 97, 74, 315, 994, 308, 19, 36, 327, 510, 805, 65, 577,
     457, 67, 109, 656, 987, 518, 971, 802, 129, 782, 720, 83, 740, 44, 595,
     32, 521, 431, 329, 671, 689, 903, 532, 264, 114, 123, 532, 793, 567,
     380, 898, 892, 974, 699, 913, 152, 570, 96, 586, 57>>,
   <<136, 699, 148, 772, 606, 916, 167, 893, 101, 155, 546, 967, 209, 751,
     306, 34, 365, 351, 339, 139, 16, 426, 671, 597, 989, 44, 243, 61, 401,
     316, 170, 867, 531, 106, 225, 897, 92, 56, 63, 914, 839, 211, 101, 349,
     131, 35, 190, 647, 19, 521, 502, 60, 534, 104, 473, 401, 330, 247>>,
   <<256, 456, 63, 438, 786, 670, 541, 662, 887, 703, 174, 533, 957, 39,
     819, 478, 414, 305, 675, 158, 693, 30, 2, 493, 972, 658, 778, 337, 571,
     458, 530, 4, 325, 478, 485, 704, 721, 119, 807, 400, 276, 888, 398,
     846, 63, 454, 235, 186, 659, 254, 937, 104, 413, 176, 379, 197, 534,
     633, 985, 275, 62, 1>>,
   <<776, 603, 246, 192, 874, 82, 950, 264, 360, 674, 994, 251, 188, 214,
     722, 319, 661, 252, 998, 437, 375, 721, 704, 688, 310, 407, 594, 573,
     309, 642, 778, 399, 371, 317, 811, 912, 505, 386, 677, 208, 167, 275,
     899, 517, 192, 579, 930, 559, 248, 507, 228, 893, 324, 291, 700, 605,
     171, 641, 218, 195, 622, 617, 440, 562, 4>>,
   <<696, 109, 990, 984, 579, 381, 145, 17, 501, 682, 507, 143, 533, 504,
     249, 743, 109, 171, 513, 885, 170, 340, 298, 908, 14, 298, 911, 567,
     684, 495, 900, 358, 10, 735, 838, 528, 235, 235, 647, 457, 982, 200,
     266, 465, 281, 465, 202, 662, 933, 844, 463, 487, 130, 927, 88, 418,
     558, 606, 605, 401, 791, 747, 369, 629, 242, 533, 595, 19>>,
   <<16, 502, 772, 27, 692, 340, 476, 163, 149, 126, 620, 66, 571, 113, 55,
     738, 578, 283, 599, 93, 430, 330, 36, 45, 810, 861, 940, 2, 916, 310,
     408, 483, 851, 698, 501, 727, 631, 219, 415, 441, 580, 664, 818, 153,
     293, 753, 468, 714, 99, 449, 494, 972, 751, 781, 170, 845, 436, 805,
     648, 58, 82, 126, 838, 855, 115, 976, 773, 424, 174, 162, 84>>,
   <<736, 68, 814, 886, 819, 290, 13, 942, 640, 548, 51, 66, 279, 905, 296,
     433, 663, 787, 709, 899, 141, 623, 101, 329, 326, 795, 198, 296, 41,
     434, 832, 998, 781, 999, 561, 351, 780, 783, 926, 274, 612, 439, 389,
     887, 861, 951, 987, 407, 233, 286, 810, 424, 150, 447, 475, 159, 923,
     1, 717, 300, 973, 508, 366, 192, 802, 931, 485, 609, 839, 651, 714,
     786, 473, 361>>,
   <<856, 57, 816, 853, 846, 892, 750, 468, 716, 193, 999, 262, 825, 444,
     598, 631, 285, 265, 550, 905, 849, 20, 976, 454, 204, 139, 181, 41,
     275, 287, 444, 391, 814, 114, 44, 580, 171, 206, 73, 131, 697, 730,
     487, 950, 477, 646, 828, 408, 878, 330, 886, 376, 686, 952, 50, 26, 38,
     52, 139, 611, 696, 116, 17, 886, 256, 555, 502, 462, 488, 979, 148,
     935, 708, 300, 92, 518, 552, 1>>,
   <<376, 877, 163, 291, 461, 476, 37, 748, 690, 981, 601, 886, 135, 16,
     965, 728, 24, 814, 911, 285, 78, 463, 558, 14, 514, 579, 157, 95, 46,
     830, 330, 52, 356, 363, 80, 365, 119, 654, 801, 888, 445, 240, 433,
     593, 910, 929, 742, 290, 554, 871, 200, 432, 521, 71, 632, 817, 237,
     37, 764, 811, 257, 396, 160, 908, 315, 322, 758, 144, 797, 257, 721,
     790, 851, 79, 274, 854, 879, 432, 14, 668, 6>>,
   <<296, 295, 474, 106, 787, 358, 615, 583, 737, 606, 553, 930, 475, 247,
     745, 231, 8, 40, 245, 776, 978, 478, 261, 801, 266, 102, 212, 979, 307,
     874, 512, 620, 579, 564, 41, 26, 445, 700, 376, 73, 757, 860, 396, 74,
     720, 999, 218, 509, 359, 429, 375, 628, 824, 265, 284, 345, 159, 904,
     352, 5, 64, 311, 702, 449, 441, 529, 652, 170, 172, 739, 721, 490, 838,
     674, 933, 783, 418, 204, 961, 474, 918, 903, 638, 28>>,
   <<616, 639, 966, 160, 568, 533, 928, 433, 31, 882, 766, 112, 908, 274,
     548, 912, 626, 916, 566, 517, 548, 450, 435, 758, 583, 884, 318, 83,
     827, 347, 729, 899, 885, 90, 142, 206, 388, 494, 775, 699, 600, 953,
     695, 876, 203, 689, 552, 299, 214, 322, 50, 709, 822, 343, 149, 540,
     693, 368, 10, 303, 492, 953, 521, 955, 254, 618, 703, 930, 944, 65,
     715, 180, 869, 731, 415, 664, 223, 683, 447, 847, 567, 208, 136, 723,
     155, 3, 123>>,
   <<336, 998, 737, 897, 580, 538, 489, 476, 36, 767, 898, 396, 838, 738,
     561, 751, 292, 28, 148, 404, 188, 211, 908, 232, 24, 53, 441, 426, 676,
     517, 731, 168, 84, 5, 999, 683, 386, 908, 576, 939, 462, 978, 538, 250,
     537, 685, 502, 559, 347, 882, 678, 128, 257, 993, 394, 674, 894, 187,
     657, 887, 255, 417, 474, 859, 724, 556, 902, 673, 26, 709, 960, 127,
     522, 121, 36, 326, 847, 518, 606, 516, 916, 784, 339, 352, 246, 665,
     135, 531, 294, 528>>,
   <<456, 419, 622, 229, 23, 35, 86, 91, 641, 361, 389, 244, 272, 709, 807,
     235, 521, 671, 250, 260, 212, 110, 57, 24, 254, 236, 882, 410, 472,
     474, 697, 224, 214, 429, 42, 333, 613, 897, 595, 597, 845, 830, 573,
     871, 670, 254, 663, 406, 448, 769, 599, 368, 663, 194, 508, 625, 64,
     619, 953, 66, 72, 551, 695, 862, 817, 312, 56, 824, 137, 403, 536, 442,
     572, 331, 221, 252, 191, 942, 672, 349, 239, 915, 112, 296, 669, 82,
     287, 972, 335, 883, 733, 7, 269, 2>>,
   <<976, 110, 914, 991, 589, 828, 81, 547, 277, 104, 803, 738, 827, 612,
     965, 468, 615, 363, 746, 945, 874, 394, 925, 597, 685, 873, 378, 218,
     479, 593, 799, 352, 648, 53, 490, 655, 789, 870, 29, 473, 956, 699,
     277, 531, 419, 653, 312, 296, 987, 577, 46, 94, 203, 865, 169, 459,
     183, 668, 408, 231, 916, 304, 225, 259, 10, 882, 65, 615, 465, 102,
     426, 766, 690, 948, 212, 457, 906, 867, 526, 7, 595, 857, 226, 876,
     310, 188, 875, 387, 382, 353, 80, 999, 399, 11, 314, 745, 9>>,
   <<896, 640, 834, 82, 11, 64, 893, 29, 554, 423, 342, 55, 963, 240, 736,
     43, 10, 527, 363, 39, 406, 990, 777, 435, 776, 75, 958, 616, 904, 792,
     337, 35, 524, 758, 960, 272, 887, 24, 676, 72, 801, 286, 152, 407, 370,
     405, 869, 827, 307, 166, 151, 756, 64, 328, 17, 356, 722, 862, 872,
     858, 797, 919, 841, 910, 166, 109, 458, 119, 488, 672, 561, 890, 284,
     817, 567, 934, 837, 716, 545, 499, 771, 540, 406, 247, 457, 875, 54,
     725, 320, 906, 478, 853, 547, 224, 567, 213, 968, 804, 855, 41>>,
   <<216, 137, 224, 624, 329, 356, 835, 304, 716, 479, 938, 245, 947, 239,
     298, 586, 684, 510, 350, 163, 237, 827, 540, 110, 913, 473, 881, 462,
     342, 682, 150, 838, 768, 5, 85, 952, 82, 453, 119, 94, 246, 601, 219,
     302, 276, 485, 865, 424, 893, 767, 377, 124, 474, 639, 430, 847, 492,
     622, 416, 814, 768, 789, 658, 357, 393, 871, 879, 113, 120, 21, 536,
     407, 322, 477, 708, 132, 963, 500, 805, 675, 732, 157, 81, 430, 273,
     657, 230, 894, 697, 797, 361, 473, 902, 78, 519, 930, 772, 590, 231,
     486, 313, 769, 179>>,
   <<936, 487, 536, 716, 638, 638, 242, 100, 822, 625, 488, 209, 39, 71,
     782, 275, 230, 722, 196, 175, 253, 626, 402, 856, 485, 918, 86, 381,
     24, 748, 962, 780, 97, 193, 131, 789, 234, 580, 685, 908, 788, 90, 135,
     562, 999, 556, 887, 460, 692, 610, 738, 451, 749, 840, 730, 169, 514,
     708, 557, 925, 86, 320, 997, 183, 133, 96, 157, 307, 843, 401, 854,
     652, 194, 15, 698, 1, 618, 484, 551, 93, 197, 95, 660, 87, 315, 728,
     966, 69, 740, 808, 223, 288, 432, 662, 166, 190, 524, 941, 791, 651,
     428, 736, 247, 322, 103, 772>>,
   <<56, 541, 818, 75, 630, 483, 33, 618, 166, 656, 901, 789, 340, 487, 553,
     936, 55, 665, 430, 345, 80, 486, 898, 965, 831, 87, 171, 830, 955, 378,
     5, 159, 174, 165, 430, 608, 930, 319, 203, 455, 97, 644, 353, 872, 534,
     256, 455, 446, 816, 425, 595, 264, 263, 347, 479, 141, 554, 746, 59,
     629, 544, 147, 989, 324, 840, 328, 353, 626, 210, 356, 646, 966, 728,
     83, 145, 729, 847, 345, 564, 926, 878, 477, 763, 35, 482, 683, 418,
     921, 849, 471, 159, 467, 704, 735, 149, 936, 699, 158, 741, 642, 760,
     283, 87, 171, 977, 186, 518, 158, 316, 3>>
  >>

\* 5^p for p = 0 .. 63
Pow5Small ==
  <<
   <<1>>,
   <<5>>,
   <<25>>,
   <<125>>,
   <<625>>,
   <<125, 3>>,
   <<625, 15>>,
   <<125, 78>>,
   <<625, 390>>,
   <<125, 953, 1>>,
   <<625, 765, 9>>,
   <<125, 828, 48>>,
   <<625, 140, 244>>,
   <<125, 703, 220, 1>>,
   <<625, 515, 103, 6>>,
   <<125, 578, 517, 30>>,
   <<625, 890, 587, 152>>,
   <<125, 453, 939, 762>>,
   <<625, 265, 697, 814, 3>>,
   <<125, 328, 486, 73, 19>>,
   <<625, 640, 431, 367, 95>>,
   <<125, 203, 158, 837, 476>>,
   <<625, 15, 791, 185, 384, 2>>,
   <<125, 78, 955, 928, 920, 11>>,
   <<625, 390, 775, 644, 604, 59>>,
   <<125, 953, 876, 223, 23, 298>>,
   <<625, 765, 384, 119, 116, 490, 1>>,
   <<125, 828, 923, 596, 580, 450, 7>>,
   <<625, 140, 619, 984, 902, 252, 37>>,
   <<125, 703, 95, 923, 514, 264, 186>>,
   <<625, 515, 478, 615, 574, 322, 931>>,
   <<125, 578, 392, 77, 873, 612, 656, 4>>,
   <<625, 890, 962, 386, 365, 64, 283, 23>>,
   <<125, 453, 814, 934, 826, 321, 415, 116>>,
   <<625, 265, 72, 674, 134, 609, 76, 582>>,
   <<125, 328, 361, 370, 673, 45, 383, 910, 2>>,
   <<625, 640, 806, 851, 366, 228, 915, 551, 14>>,
   <<125, 203, 33, 259, 834, 141, 576, 759, 72>>,
   <<625, 15, 166, 295, 171, 709, 880, 797, 363>>,
   <<125, 78, 830, 475, 856, 545, 403, 989, 818, 1>>,
   <<625, 390, 150, 379, 282, 729, 17, 947, 94, 9>>,
   <<125, 953, 751, 895, 411, 646, 88, 735, 474, 45>>,
   <<625, 765, 759, 478, 59, 232, 443, 675, 373, 227>>,
   <<125, 828, 798, 393, 297, 160, 216, 377, 868, 136, 1>>,
   <<625, 140, 994, 968, 486, 801, 80, 886, 341, 684, 5>>,
   <<125, 703, 970, 844, 434, 7, 404, 430, 709, 421, 28>>,
   <<625, 515, 853, 224, 174, 37, 20, 152, 547, 108, 142>>,
   <<125, 578, 267, 124, 871, 185, 100, 760, 735, 542, 710>>,
   <<625, 890, 337, 621, 355, 929, 500, 800, 678, 713, 552, 3>>,
   <<125, 453, 689, 106, 778, 646, 504, 2, 394, 568, 763, 17>>,
   <<625, 265, 447, 533, 890, 233, 523, 12, 970, 841, 817, 88>>,
   <<125, 328, 236, 667, 452, 169, 616, 62, 850, 209, 89, 444>>,
   <<625, 640, 181, 336, 263, 847, 80, 313, 250, 49, 446, 220, 2>>,
   <<125, 203, 908, 680, 316, 236, 404, 565, 251, 246, 230, 102, 11>>,
   <<625, 15, 541, 404, 583, 181, 21, 827, 257, 231, 151, 511, 55>>,
   <<125, 78, 705, 22, 917, 907, 105, 135, 289, 156, 756, 555, 277>>,
   <<625, 390, 525, 113, 585, 539, 529, 675, 445, 781, 780, 778, 387, 1>>,
   <<125, 953, 626, 567, 925, 697, 647, 377, 228, 907, 903, 893, 938, 6>>,
   <<625, 765, 134, 838, 627, 489, 238, 888, 141, 536, 519, 469, 694, 34>>,
   <<125, 828, 673, 190, 139, 448, 192, 441, 709, 680, 597, 347, 472, 173>>,
   <<625, 140, 369, 953, 695, 240, 962, 205, 547, 403, 988, 737, 361, 867>>,
   <<125, 703, 845, 766, 479, 203, 811, 29, 736, 17, 942, 689, 808, 336, 4>>,
   <<625, 515, 228, 834, 398, 17, 56, 149, 680, 88, 710, 449, 43, 684, 21>>,
   <<125, 578, 142, 171, 994, 86, 280, 745, 400, 443, 550, 248, 217, 420,
     108>>
  >>

\* 5^(32 p) for p = 0 .. 34
Pow5By32 ==
  <<
   <<1>>,
   <<625, 890, 962, 386, 365, 64, 283, 23>>,
   <<625, 890, 712, 855, 970, 434, 400, 726, 3, 217, 752, 242, 86, 101,
     542>>,
   <<625, 890, 462, 324, 76, 368, 744, 961, 302, 771, 674, 579, 524, 44,
     657, 587, 886, 188, 536, 483, 774, 621, 12>>,
   <<625, 890, 212, 793, 681, 863, 314, 604, 569, 926, 187, 377, 880, 21,
     193, 389, 666, 454, 419, 561, 305, 134, 184, 992, 876, 571, 705, 587,
     873, 293>>,
   <<625, 890, 962, 261, 787, 921, 111, 529, 475, 196, 718, 53, 927, 520,
     620, 930, 979, 559, 782, 666, 924, 68, 13, 904, 766, 609, 793, 907,
     355, 773, 119, 854, 20, 836, 657, 277, 842, 6>>,
   <<625, 890, 712, 730, 392, 542, 135, 611, 692, 344, 98, 594, 268, 18,
     472, 987, 308, 94, 816, 305, 151, 290, 616, 338, 585, 388, 607, 878,
     261, 519, 455, 110, 559, 180, 771, 776, 39, 888, 702, 227, 245, 113,
     191, 309, 159>>,
   <<625, 890, 462, 199, 498, 725, 385, 725, 892, 384, 567, 49, 27, 159, 1,
     136, 919, 338, 536, 437, 208, 723, 82, 312, 997, 358, 629, 95, 340,
     581, 917, 58, 39, 453, 2, 791, 757, 778, 564, 367, 513, 639, 547, 261,
     735, 731, 385, 421, 687, 150, 206, 709, 3>>,
   <<625, 890, 212, 668, 103, 471, 862, 746, 747, 580, 770, 37, 530, 936,
     466, 319, 468, 989, 950, 969, 635, 496, 461, 939, 472, 605, 265, 882,
     722, 34, 75, 715, 579, 270, 624, 31, 918, 685, 701, 34, 237, 850, 813,
     362, 644, 3, 160, 711, 995, 3, 628, 518, 863, 253, 446, 944, 550, 685,
     361, 86>>,
   <<625, 890, 962, 136, 209, 779, 565, 550, 929, 445, 759, 242, 998, 871,
     42, 430, 31, 955, 71, 958, 589, 862, 964, 829, 462, 579, 993, 438, 17,
     78, 913, 390, 734, 652, 167, 691, 301, 93, 56, 806, 814, 14, 334, 312,
     838, 399, 518, 690, 869, 541, 774, 919, 273, 648, 362, 503, 378, 762,
     192, 28, 148, 796, 948, 385, 683, 764, 10, 2>>,
   <<625, 890, 712, 605, 814, 649, 495, 11, 110, 744, 991, 914, 232, 194,
     351, 906, 290, 452, 724, 151, 454, 907, 270, 289, 75, 338, 692, 122,
     46, 312, 149, 199, 374, 753, 391, 196, 200, 314, 906, 537, 430, 334,
     646, 392, 975, 350, 866, 494, 996, 739, 766, 832, 603, 538, 554, 371,
     163, 833, 941, 387, 233, 150, 699, 765, 586, 138, 494, 558, 271, 983,
     921, 546, 763, 816, 46>>,
   <<625, 890, 462, 74, 920, 82, 652, 4, 961, 488, 331, 371, 303, 19, 622,
     346, 643, 613, 601, 603, 429, 230, 955, 608, 295, 40, 658, 330, 81,
     661, 70, 847, 599, 606, 544, 207, 341, 419, 165, 914, 812, 585, 497,
     414, 225, 364, 256, 711, 898, 366, 203, 234, 442, 969, 888, 346, 861,
     158, 660, 680, 512, 823, 812, 836, 489, 534, 983, 763, 128, 151, 65,
     311, 359, 751, 973, 296, 584, 86, 42, 719, 37, 90, 1>>,
   <<625, 890, 212, 543, 525, 78, 35, 405, 154, 944, 48, 495, 234, 530, 477,
     137, 972, 827, 513, 110, 807, 807, 271, 528, 409, 68, 438, 682, 206,
     588, 826, 668, 950, 356, 997, 164, 387, 784, 797, 761, 576, 63, 807,
     27, 267, 436, 424, 713, 20, 466, 958, 508, 577, 910, 645, 296, 862,
     842, 557, 290, 74, 324, 739, 994, 892, 978, 766, 394, 212, 603, 60,
     816, 955, 10, 497, 188, 236, 468, 435, 305, 558, 245, 740, 232, 492,
     156, 373, 418, 379, 25>>,
   <<625, 890, 962, 11, 631, 636, 644, 87, 362, 623, 820, 235, 694, 156,
     341, 98, 836, 32, 282, 323, 666, 175, 741, 631, 534, 949, 419, 680,
     162, 108, 691, 219, 311, 792, 281, 355, 318, 945, 163, 115, 55, 561,
     651, 457, 663, 654, 556, 459, 706, 603, 156, 610, 213, 764, 65, 630,
     127, 329, 9, 349, 477, 147, 535, 264, 729, 991, 907, 549, 64, 822, 632,
     991, 177, 92, 790, 969, 858, 545, 246, 770, 616, 83, 278, 311, 22, 340,
     797, 799, 568, 571, 968, 89, 287, 538, 631, 910, 590>>,
   <<625, 890, 712, 480, 236, 757, 480, 927, 255, 290, 729, 109, 681, 754,
     471, 141, 824, 176, 224, 423, 784, 853, 288, 247, 681, 848, 498, 897,
     125, 678, 230, 485, 244, 399, 336, 950, 815, 892, 885, 264, 459, 224,
     645, 305, 966, 79, 433, 315, 492, 942, 540, 77, 89, 590, 561, 775, 0,
     689, 138, 688, 76, 483, 729, 809, 743, 289, 681, 864, 7, 562, 866, 984,
     415, 936, 351, 256, 46, 782, 35, 228, 186, 165, 187, 709, 518, 804,
     687, 482, 295, 664, 224, 360, 161, 65, 170, 526, 897, 667, 763, 397,
     297, 268, 210, 758, 13>>,
   <<625, 890, 462, 949, 341, 440, 543, 799, 507, 958, 263, 699, 211, 786,
     622, 947, 825, 70, 684, 325, 576, 598, 8, 584, 214, 888, 719, 714, 807,
     821, 129, 885, 413, 992, 939, 477, 663, 276, 750, 855, 671, 588, 355,
     298, 139, 737, 346, 448, 946, 202, 958, 318, 157, 229, 140, 562, 998,
     648, 742, 703, 167, 634, 35, 694, 898, 784, 486, 330, 591, 347, 457,
     785, 768, 431, 83, 11, 112, 468, 598, 217, 62, 216, 265, 518, 865, 527,
     478, 857, 964, 853, 853, 9, 891, 391, 800, 836, 809, 276, 437, 317,
     239, 836, 421, 634, 733, 908, 147, 296, 229, 295, 333, 320>>,
   <<625, 890, 212, 418, 947, 685, 832, 578, 789, 891, 319, 153, 8, 499,
     326, 657, 968, 846, 551, 433, 927, 612, 3, 646, 628, 516, 336, 58, 206,
     337, 215, 350, 265, 699, 563, 297, 742, 222, 3, 823, 686, 31, 120, 507,
     588, 260, 217, 414, 765, 914, 63, 365, 554, 446, 941, 262, 435, 266,
     74, 204, 495, 377, 781, 318, 792, 260, 481, 691, 84, 592, 829, 164,
     486, 660, 302, 225, 95, 728, 412, 453, 101, 836, 255, 603, 511, 361,
     803, 427, 400, 890, 174, 936, 304, 118, 70, 385, 278, 206, 333, 518,
     271, 894, 406, 600, 534, 471, 376, 837, 933, 462, 315, 965, 290, 743,
     206, 200, 731, 340, 458, 7>>,
   <<625, 890, 962, 886, 52, 494, 348, 140, 773, 603, 198, 687, 185, 106,
     803, 577, 969, 243, 225, 26, 819, 255, 184, 129, 826, 699, 218, 426,
     773, 865, 102, 960, 912, 746, 943, 566, 925, 980, 856, 732, 408, 33,
     970, 85, 253, 327, 743, 642, 587, 341, 493, 879, 334, 440, 64, 618,
     933, 508, 251, 317, 816, 823, 876, 615, 268, 378, 352, 799, 399, 484,
     744, 850, 525, 568, 876, 993, 533, 297, 651, 600, 55, 924, 17, 371, 96,
     835, 895, 133, 365, 825, 128, 530, 921, 610, 808, 678, 12, 847, 278,
     940, 2, 521, 949, 781, 427, 294, 514, 905, 365, 921, 445, 364, 981,
     290, 571, 507, 887, 489, 985, 961, 393, 678, 521, 303, 27, 653, 173>>,
   <<625, 890, 712, 355, 658, 864, 90, 359, 130, 858, 607, 82, 940, 965,
     494, 905, 654, 937, 960, 431, 685, 84, 373, 301, 283, 438, 147, 327,
     81, 4, 766, 649, 803, 836, 99, 31, 953, 646, 592, 376, 129, 881, 640,
     200, 937, 377, 215, 101, 885, 22, 622, 802, 9, 36, 829, 281, 540, 853,
     558, 130, 643, 592, 769, 300, 655, 917, 111, 619, 847, 285, 586, 165,
     500, 837, 365, 668, 219, 728, 920, 263, 387, 450, 696, 646, 262, 346,
     286, 895, 762, 810, 265, 682, 863, 821, 500, 54, 491, 758, 565, 170,
     843, 98, 108, 176, 491, 360, 211, 724, 881, 106, 854, 831, 158, 806,
     885, 135, 241, 273, 888, 921, 323, 843, 32, 926, 437, 533, 599, 630,
     906, 194, 952, 611, 174, 43, 4>>,
   <<625, 890, 462, 824, 763, 797, 59, 110, 533, 668, 661, 187, 235, 761,
     225, 464, 394, 135, 65, 194, 481, 228, 587, 32, 221, 121, 595, 279,
     227, 533, 871, 560, 471, 671, 466, 720, 162, 367, 386, 105, 225, 124,
     725, 763, 887, 814, 598, 866, 901, 997, 311, 143, 864, 50, 753, 10,
     441, 660, 608, 975, 922, 48, 525, 688, 241, 432, 997, 826, 510, 523,
     167, 359, 102, 550, 503, 414, 0, 867, 366, 621, 511, 870, 757, 178,
     106, 164, 126, 872, 445, 727, 76, 558, 437, 990, 89, 840, 225, 293,
     601, 741, 180, 885, 767, 238, 94, 919, 748, 692, 519, 151, 977, 409,
     812, 393, 776, 946, 353, 502, 775, 765, 857, 92, 621, 524, 889, 542,
     35, 131, 336, 329, 380, 957, 230, 48, 248, 849, 410, 581, 730, 494,
     137, 94>>,
   <<625, 890, 212, 293, 369, 293, 255, 268, 653, 298, 880, 416, 490, 679,
     984, 458, 202, 653, 872, 503, 475, 129, 934, 931, 858, 111, 652, 542,
     390, 353, 126, 433, 200, 316, 404, 234, 965, 560, 552, 463, 909, 557,
     136, 927, 782, 475, 85, 669, 525, 223, 757, 14, 820, 148, 455, 852,
     101, 901, 575, 427, 553, 152, 667, 53, 590, 307, 780, 684, 665, 575,
     223, 945, 460, 852, 653, 653, 719, 202, 550, 634, 204, 146, 497, 795,
     818, 333, 467, 92, 272, 878, 663, 279, 806, 703, 884, 576, 580, 380,
     211, 659, 62, 914, 343, 302, 131, 766, 26, 9, 934, 466, 256, 319, 249,
     594, 892, 175, 537, 704, 665, 91, 147, 274, 738, 534, 315, 751, 614,
     390, 608, 604, 272, 623, 36, 124, 722, 808, 630, 832, 120, 141, 107,
     693, 752, 39, 403, 8, 349, 809, 191, 2>>,
   <<625, 890, 962, 761, 474, 351, 677, 708, 162, 262, 190, 251, 268, 592,
     335, 245, 254, 694, 963, 235, 830, 606, 169, 210, 655, 813, 543, 211,
     49, 221, 346, 84, 112, 2, 860, 65, 661, 946, 141, 257, 79, 505, 862,
     272, 101, 523, 509, 115, 492, 491, 704, 432, 196, 857, 313, 754, 325,
     979, 5, 214, 240, 656, 489, 964, 304, 891, 522, 311, 10, 774, 508, 995,
     328, 96, 220, 994, 842, 682, 315, 355, 345, 391, 127, 29, 102, 225,
     247, 164, 610, 233, 988, 529, 654, 661, 572, 599, 310, 940, 591, 262,
     502, 485, 278, 761, 457, 358, 526, 651, 891, 631, 778, 351, 607, 798,
     857, 813, 88, 278, 490, 116, 472, 240, 436, 584, 320, 520, 594, 220,
     920, 148, 592, 433, 543, 233, 889, 639, 889, 817, 779, 568, 414, 706,
     352, 253, 394, 296, 336, 413, 798, 814, 781, 545, 619, 149, 38, 32,
     51>>,
   <<625, 890, 712, 230, 80, 972, 325, 306, 733, 322, 924, 737, 961, 234,
     451, 114, 569, 547, 567, 983, 56, 985, 626, 672, 786, 893, 601, 251,
     809, 667, 943, 849, 624, 64, 74, 494, 292, 107, 308, 160, 289, 633, 81,
     699, 163, 954, 244, 539, 587, 432, 127, 347, 555, 66, 578, 660, 810,
     905, 838, 443, 84, 114, 178, 762, 947, 932, 363, 844, 470, 511, 407, 4,
     13, 439, 375, 138, 224, 85, 264, 125, 168, 240, 661, 891, 139, 447,
     703, 94, 410, 352, 124, 850, 988, 858, 129, 400, 909, 73, 860, 213, 50,
     497, 615, 559, 223, 570, 120, 834, 644, 425, 404, 367, 986, 829, 907,
     364, 390, 715, 689, 889, 367, 27, 414, 736, 921, 367, 561, 439, 643,
     631, 501, 664, 888, 657, 935, 250, 223, 127, 420, 798, 905, 658, 978,
     285, 91, 276, 395, 449, 983, 503, 544, 290, 443, 939, 646, 253, 920,
     696, 889, 474, 934, 228, 182, 188, 1>>,
   <<625, 890, 462, 699, 185, 155, 201, 936, 36, 494, 821, 990, 481, 386,
     772, 93, 609, 425, 602, 554, 487, 695, 932, 405, 657, 434, 708, 132, 8,
     340, 753, 273, 936, 997, 973, 301, 614, 82, 700, 263, 41, 712, 164,
     742, 940, 181, 472, 391, 252, 47, 890, 603, 835, 718, 635, 523, 298,
     232, 727, 45, 756, 990, 195, 908, 543, 514, 148, 782, 725, 452, 71,
     528, 852, 642, 727, 240, 990, 476, 850, 903, 522, 424, 572, 626, 907,
     927, 549, 14, 689, 583, 904, 661, 404, 620, 261, 117, 620, 872, 389,
     453, 685, 470, 136, 33, 868, 230, 528, 953, 515, 861, 531, 628, 810,
     618, 314, 495, 233, 357, 224, 654, 244, 888, 851, 388, 215, 721, 718,
     569, 776, 194, 577, 463, 522, 9, 424, 685, 292, 367, 832, 584, 457,
     485, 96, 699, 919, 762, 58, 824, 181, 211, 762, 202, 925, 527, 688,
     303, 967, 342, 902, 334, 415, 967, 524, 409, 187, 654, 326, 90, 314,
     523, 664, 27>>,
   <<625, 890, 212, 168, 791, 900, 302, 473, 745, 39, 27, 690, 945, 48, 292,
     763, 543, 659, 300, 451, 931, 298, 677, 503, 597, 144, 410, 243, 367,
     919, 272, 702, 713, 607, 359, 551, 160, 792, 237, 988, 991, 991, 755,
     922, 752, 779, 943, 953, 482, 456, 533, 686, 168, 507, 362, 685, 259,
     223, 977, 979, 405, 509, 66, 835, 244, 685, 526, 768, 114, 799, 648,
     426, 135, 577, 323, 690, 884, 173, 745, 898, 71, 838, 236, 397, 816,
     215, 411, 21, 931, 557, 675, 217, 915, 732, 307, 679, 576, 553, 58,
     607, 969, 279, 960, 206, 593, 342, 802, 34, 784, 174, 567, 270, 380,
     634, 28, 910, 725, 870, 278, 49, 88, 605, 80, 759, 953, 532, 454, 137,
     222, 45, 459, 573, 464, 257, 46, 719, 722, 474, 149, 667, 914, 84, 218,
     856, 668, 260, 561, 522, 972, 628, 964, 36, 756, 932, 626, 323, 229,
     993, 570, 307, 584, 633, 965, 443, 331, 481, 520, 250, 885, 336, 650,
     703, 822, 330, 713, 959, 876, 114, 644>>,
   <<625, 890, 962, 636, 896, 208, 631, 792, 530, 473, 92, 582, 362, 627,
     464, 87, 931, 470, 868, 918, 732, 292, 11, 831, 780, 482, 576, 109,
     411, 64, 691, 763, 529, 340, 262, 184, 403, 720, 198, 974, 688, 56,
     730, 558, 840, 655, 224, 668, 391, 448, 188, 995, 185, 669, 768, 10,
     751, 374, 135, 995, 86, 52, 993, 255, 434, 913, 222, 346, 242, 851,
     360, 911, 850, 740, 963, 953, 100, 30, 209, 809, 735, 906, 351, 327,
     769, 21, 895, 85, 548, 530, 772, 383, 521, 532, 347, 783, 953, 736,
     499, 770, 204, 808, 59, 848, 867, 226, 705, 919, 54, 883, 135, 320,
     905, 420, 641, 863, 681, 265, 728, 102, 156, 64, 509, 191, 26, 143,
     131, 784, 582, 889, 290, 234, 562, 321, 801, 177, 752, 53, 758, 613,
     291, 702, 314, 26, 415, 836, 953, 609, 58, 280, 476, 896, 424, 362,
     148, 974, 283, 681, 709, 27, 903, 521, 558, 108, 177, 476, 344, 373,
     979, 82, 391, 962, 616, 399, 535, 653, 280, 376, 444, 176, 548, 309,
     956, 138, 968, 996, 14>>,
   <<625, 890, 712, 105, 502, 79, 186, 769, 64, 559, 975, 979, 322, 109,
     740, 262, 564, 538, 129, 211, 479, 355, 982, 605, 409, 238, 313, 133,
     513, 703, 427, 482, 770, 832, 676, 384, 92, 827, 383, 992, 919, 433,
     550, 883, 446, 352, 880, 507, 258, 468, 270, 464, 718, 893, 755, 604,
     955, 813, 684, 626, 659, 130, 6, 716, 37, 284, 150, 863, 751, 307, 522,
     326, 357, 682, 794, 323, 820, 462, 730, 825, 462, 310, 873, 673, 914,
     919, 536, 691, 613, 415, 758, 846, 728, 864, 871, 705, 868, 305, 445,
     297, 802, 203, 591, 511, 109, 742, 126, 505, 416, 487, 718, 709, 28,
     549, 792, 718, 17, 616, 566, 365, 493, 740, 739, 709, 58, 662, 830,
     727, 841, 408, 685, 736, 433, 957, 392, 956, 340, 736, 412, 432, 593,
     19, 257, 748, 124, 51, 426, 168, 319, 694, 490, 156, 311, 455, 456,
     848, 786, 73, 310, 342, 61, 417, 384, 441, 950, 712, 833, 207, 233,
     337, 374, 571, 185, 182, 90, 855, 730, 19, 610, 174, 354, 182, 380,
     129, 3, 783, 717, 274, 289, 977, 464, 374, 175, 349>>,
   <<625, 890, 462, 574, 607, 512, 967, 277, 19, 310, 40, 263, 685, 244,
     723, 580, 234, 579, 601, 783, 650, 847, 324, 726, 39, 848, 691, 237,
     190, 863, 980, 619, 874, 954, 26, 691, 987, 107, 847, 288, 753, 55,
     326, 630, 628, 381, 712, 172, 937, 78, 194, 874, 284, 473, 742, 33,
     896, 558, 259, 611, 967, 722, 975, 166, 545, 264, 70, 907, 660, 721,
     983, 124, 921, 395, 728, 989, 966, 936, 948, 441, 250, 607, 939, 719,
     525, 792, 929, 452, 900, 553, 412, 66, 529, 488, 524, 672, 98, 253, 13,
     716, 491, 505, 701, 268, 98, 793, 239, 382, 970, 435, 26, 712, 209,
     209, 480, 410, 600, 791, 756, 333, 964, 919, 889, 185, 818, 690, 261,
     51, 731, 751, 436, 188, 28, 860, 618, 769, 717, 864, 867, 724, 908,
     980, 130, 794, 749, 8, 571, 543, 583, 803, 974, 738, 828, 767, 987, 2,
     190, 494, 321, 525, 917, 150, 680, 654, 398, 642, 532, 776, 499, 883,
     728, 547, 550, 188, 573, 896, 888, 882, 204, 846, 416, 670, 443, 528,
     766, 47, 123, 290, 250, 958, 685, 554, 733, 512, 684, 576, 161, 476,
     718, 872, 129, 8>>,
   <<625, 890, 212, 43, 213, 508, 975, 193, 66, 990, 56, 377, 263, 725, 957,
     306, 160, 161, 955, 186, 543, 426, 353, 544, 210, 135, 752, 202, 758,
     616, 783, 221, 149, 662, 945, 800, 185, 229, 174, 884, 803, 935, 79,
     469, 722, 17, 339, 783, 413, 956, 623, 879, 755, 283, 840, 547, 666,
     676, 669, 897, 424, 219, 918, 243, 657, 565, 565, 628, 498, 114, 726,
     957, 92, 224, 127, 291, 970, 963, 21, 492, 943, 595, 974, 503, 417, 61,
     968, 458, 105, 481, 317, 310, 468, 701, 470, 415, 199, 883, 15, 333,
     743, 563, 168, 453, 403, 328, 6, 544, 716, 343, 861, 86, 245, 496, 873,
     424, 923, 252, 950, 8, 475, 1, 736, 536, 738, 645, 514, 664, 473, 381,
     620, 611, 711, 162, 658, 310, 120, 604, 818, 913, 911, 746, 806, 650,
     602, 586, 931, 505, 308, 850, 63, 399, 172, 257, 91, 474, 161, 971,
     904, 871, 764, 480, 657, 400, 250, 509, 504, 553, 204, 520, 798, 368,
     417, 568, 986, 487, 297, 505, 702, 632, 920, 194, 72, 267, 581, 252,
     73, 263, 32, 506, 384, 548, 763, 424, 149, 349, 64, 245, 884, 602, 255,
     640, 755, 953, 683, 786, 349, 288, 189>>,
   <<625, 890, 962, 511, 318, 66, 210, 392, 877, 112, 202, 334, 514, 364,
     335, 575, 831, 968, 303, 496, 829, 548, 600, 439, 952, 310, 407, 976,
     588, 653, 615, 269, 243, 802, 238, 901, 892, 161, 649, 556, 346, 124,
     718, 867, 725, 429, 642, 886, 629, 753, 732, 124, 226, 181, 483, 173,
     822, 747, 475, 724, 587, 360, 399, 97, 510, 291, 420, 731, 891, 5, 276,
     259, 486, 999, 993, 555, 772, 693, 569, 893, 750, 238, 71, 974, 323,
     632, 65, 347, 536, 926, 240, 500, 240, 793, 864, 336, 691, 982, 552,
     941, 880, 932, 26, 599, 679, 287, 907, 123, 790, 135, 477, 310, 472,
     734, 577, 531, 813, 30, 289, 130, 473, 833, 857, 172, 573, 648, 381,
     987, 41, 684, 941, 429, 68, 322, 5, 934, 862, 845, 43, 225, 730, 755,
     610, 954, 165, 890, 633, 780, 817, 724, 843, 477, 674, 425, 474, 949,
     12, 294, 13, 580, 511, 380, 238, 21, 581, 352, 352, 474, 536, 802, 306,
     771, 636, 943, 733, 598, 614, 753, 400, 312, 442, 279, 639, 789, 631,
     260, 766, 406, 434, 971, 811, 766, 655, 901, 551, 276, 912, 937, 857,
     143, 447, 752, 380, 683, 135, 592, 865, 877, 346, 200, 82, 244, 701,
     831, 212, 407, 4>>,
   <<625, 890, 712, 980, 923, 186, 671, 747, 124, 442, 58, 713, 225, 277,
     130, 298, 21, 738, 275, 174, 171, 424, 872, 308, 931, 579, 737, 825,
     326, 881, 186, 901, 432, 870, 25, 792, 870, 883, 212, 926, 620, 4, 475,
     922, 324, 570, 150, 333, 247, 932, 263, 284, 495, 436, 296, 270, 253,
     294, 621, 709, 544, 809, 735, 477, 590, 229, 269, 201, 871, 978, 581,
     665, 399, 291, 956, 834, 34, 389, 680, 716, 283, 909, 50, 440, 541,
     278, 780, 610, 563, 478, 642, 711, 37, 291, 939, 689, 307, 380, 289,
     151, 737, 464, 129, 897, 783, 362, 585, 636, 429, 132, 666, 653, 642,
     319, 271, 756, 264, 834, 558, 53, 957, 947, 303, 422, 568, 912, 219,
     702, 714, 133, 865, 616, 798, 858, 839, 479, 759, 509, 699, 459, 23,
     62, 497, 257, 382, 412, 679, 644, 177, 221, 707, 739, 587, 90, 396,
     851, 44, 979, 210, 79, 773, 986, 839, 13, 612, 995, 636, 980, 174, 753,
     288, 73, 365, 528, 927, 609, 363, 803, 771, 338, 959, 255, 553, 122,
     683, 513, 38, 187, 756, 590, 293, 913, 844, 375, 83, 316, 834, 954,
     680, 400, 475, 474, 38, 262, 522, 930, 289, 80, 683, 530, 190, 852,
     296, 128, 229, 732, 400, 233, 406, 459, 32, 420, 613, 102>>,
   <<625, 890, 462, 449, 29, 870, 358, 135, 480, 991, 614, 158, 203, 59,
     658, 91, 712, 79, 313, 328, 324, 648, 479, 236, 607, 652, 302, 462,
     925, 524, 319, 697, 803, 629, 263, 323, 865, 86, 510, 793, 246, 784,
     760, 279, 308, 847, 43, 992, 248, 341, 817, 968, 624, 796, 599, 14,
     623, 304, 13, 849, 946, 155, 797, 368, 395, 81, 905, 292, 204, 421,
     773, 156, 209, 957, 669, 786, 4, 191, 398, 789, 354, 401, 957, 617,
     925, 465, 852, 867, 105, 499, 402, 667, 754, 602, 735, 980, 428, 638,
     158, 902, 525, 127, 977, 991, 698, 697, 221, 634, 103, 941, 579, 150,
     919, 142, 447, 284, 910, 418, 777, 238, 623, 200, 696, 311, 514, 97,
     151, 789, 793, 47, 564, 733, 50, 217, 365, 608, 55, 372, 425, 724, 842,
     665, 791, 331, 867, 849, 387, 755, 665, 62, 81, 374, 256, 461, 504,
     590, 877, 37, 712, 695, 582, 689, 438, 438, 256, 417, 668, 688, 908,
     523, 394, 427, 701, 384, 112, 314, 305, 91, 960, 735, 62, 42, 292, 293,
     794, 930, 322, 666, 54, 648, 991, 117, 61, 630, 221, 174, 563, 40, 622,
     575, 370, 237, 367, 203, 624, 985, 97, 292, 675, 877, 709, 588, 31,
     543, 572, 711, 102, 754, 219, 954, 971, 492, 234, 629, 214, 330, 240,
     368, 863, 154, 389, 2>>,
   <<625, 890, 212, 918, 634, 115, 273, 430, 615, 24, 267, 882, 957, 966,
     559, 217, 689, 411, 153, 385, 227, 284, 527, 373, 491, 466, 321, 449,
     349, 319, 152, 173, 971, 695, 376, 579, 724, 174, 352, 83, 328, 684,
     242, 418, 472, 69, 33, 579, 547, 822, 918, 117, 127, 857, 503, 763,
     153, 179, 464, 540, 185, 36, 604, 750, 102, 331, 246, 42, 570, 926,
     786, 347, 190, 285, 170, 121, 51, 941, 715, 70, 803, 771, 608, 141,
     537, 794, 140, 183, 51, 294, 734, 825, 662, 939, 586, 841, 834, 657,
     586, 776, 37, 816, 74, 290, 222, 782, 239, 490, 892, 719, 753, 809,
     858, 802, 833, 810, 299, 151, 144, 527, 899, 802, 124, 395, 448, 838,
     127, 466, 770, 561, 414, 996, 884, 272, 126, 290, 511, 289, 736, 748,
     843, 193, 522, 994, 869, 621, 957, 252, 719, 897, 515, 212, 991, 790,
     214, 499, 279, 12, 718, 973, 453, 416, 265, 166, 270, 381, 209, 355,
     593, 562, 173, 126, 39, 798, 901, 590, 64, 686, 253, 990, 261, 58, 300,
     838, 449, 269, 528, 970, 442, 634, 309, 400, 721, 502, 836, 38, 854,
     810, 128, 275, 895, 275, 493, 683, 101, 514, 775, 312, 975, 78, 357,
     896, 954, 347, 870, 110, 180, 422, 185, 833, 763, 295, 558, 511, 399,
     480, 605, 101, 310, 933, 817, 255, 577, 34, 680, 462, 846, 626, 55>>,
   <<625, 890, 962, 386, 740, 923, 413, 507, 202, 55, 816, 161, 394, 97,
     712, 539, 549, 216, 937, 267, 595, 574, 324, 694, 36, 567, 834, 115,
     634, 489, 869, 780, 898, 172, 218, 129, 545, 533, 159, 181, 635, 598,
     627, 429, 879, 363, 548, 914, 824, 768, 439, 97, 688, 844, 853, 466,
     72, 291, 642, 24, 963, 738, 803, 362, 102, 336, 945, 957, 968, 910,
     607, 378, 273, 280, 430, 748, 436, 750, 222, 621, 1, 455, 37, 897, 201,
     439, 18, 991, 273, 323, 78, 305, 586, 669, 42, 956, 480, 290, 47, 491,
     356, 379, 985, 861, 705, 196, 940, 580, 370, 965, 749, 709, 377, 179,
     442, 761, 195, 767, 539, 316, 194, 202, 199, 981, 226, 511, 621, 891,
     754, 3, 496, 454, 98, 982, 801, 760, 612, 598, 621, 684, 980, 984, 232,
     596, 961, 840, 806, 123, 376, 319, 383, 825, 486, 437, 927, 897, 979,
     739, 684, 912, 755, 777, 547, 262, 410, 276, 672, 392, 521, 851, 209,
     744, 208, 632, 666, 752, 258, 305, 581, 754, 893, 645, 35, 486, 956,
     138, 476, 285, 928, 609, 585, 741, 409, 595, 46, 504, 254, 201, 604,
     871, 819, 474, 795, 966, 374, 560, 288, 222, 229, 555, 906, 93, 864,
     55, 847, 31, 603, 771, 489, 30, 416, 778, 801, 570, 534, 331, 807, 455,
     510, 295, 965, 368, 662, 372, 234, 470, 376, 496, 224, 766, 340, 77,
     634, 446, 163, 295, 1>>,
   <<625, 890, 712, 855, 345, 294, 781, 241, 913, 846, 469, 841, 496, 567,
     759, 496, 876, 844, 893, 223, 584, 759, 196, 60, 551, 488, 443, 317,
     45, 236, 198, 693, 249, 72, 100, 9, 689, 767, 869, 629, 601, 532, 626,
     11, 690, 762, 736, 151, 370, 272, 894, 430, 787, 669, 192, 162, 769,
     152, 91, 945, 454, 211, 266, 831, 852, 528, 242, 46, 355, 559, 482,
     663, 505, 710, 938, 53, 191, 731, 217, 337, 384, 980, 857, 741, 859,
     705, 433, 860, 688, 328, 386, 971, 842, 433, 996, 112, 111, 846, 165,
     749, 669, 364, 929, 801, 307, 79, 580, 802, 441, 532, 995, 911, 887,
     646, 85, 578, 382, 668, 489, 513, 9, 388, 600, 757, 393, 568, 456, 400,
     247, 229, 89, 620, 885, 425, 878, 107, 165, 744, 303, 720, 181, 428,
     35, 268, 425, 256, 291, 490, 788, 488, 603, 378, 776, 922, 577, 232,
     997, 632, 75, 53, 744, 422, 300, 503, 378, 201, 824, 392, 231, 536,
     376, 331, 427, 608, 66, 519, 720, 15, 419, 616, 32, 733, 435, 801, 25,
     314, 643, 94, 102, 99, 595, 748, 926, 26, 514, 561, 92, 57, 264, 221,
     107, 616, 948, 79, 983, 406, 792, 588, 778, 685, 606, 949, 503, 100,
     45, 763, 399, 669, 692, 524, 300, 884, 431, 465, 54, 216, 140, 202,
     785, 316, 620, 191, 629, 63, 960, 484, 470, 159, 93, 857, 890, 121,
     777, 585, 861, 403, 589, 518, 645, 677, 891, 373, 155, 30>>
  >>

(* A finite float: its sign and the shortest decimal, digits * 10^exp with *)
(* neither a leading nor a trailing zero digit, that float() reads back as *)
(* the same double.  They are the digits repr() prints.  0.0 and -0.0,     *)
(* which are equal, are both Finite(FALSE, <<>>, 0).                       *)
Finite(neg, digits, exp) == [kind |-> "finite", neg |-> neg, digits |-> digits, exp |-> exp]

\* float('inf'), float('-inf') and float('nan')
Inf == [kind |-> "inf", neg |-> FALSE, digits |-> <<>>, exp |-> 0]

NegInf == [kind |-> "inf", neg |-> TRUE, digits |-> <<>>, exp |-> 0]

NaN == [kind |-> "nan", neg |-> FALSE, digits |-> <<>>, exp |-> 0]

IsFinite(a) == a.kind = "finite"

(* a < b on floats: nan is less than nothing and nothing is less than nan. *)
(* Doubles are ordered as their shortest decimals are, rounding to the     *)
(* nearest double being monotone.                                          *)
NumLess(a, b) ==
  LET Digit(x, i) == IF i <= Len(x.digits) THEN x.digits[i] ELSE 0
      Order(x) == Len(x.digits) + x.exp
      Longest(x, y) == IF Len(x.digits) < Len(y.digits) THEN Len(y.digits) ELSE Len(x.digits)
      MagLess(x, y) ==
        IF y.digits = <<>> THEN FALSE
        ELSE IF x.digits = <<>> THEN TRUE
        ELSE IF Order(x) # Order(y) THEN Order(x) < Order(y)
        ELSE \E i \in 1..Longest(x, y) :
               Digit(x, i) < Digit(y, i) /\ \A j \in 1..(i - 1) : Digit(x, j) = Digit(y, j)
  IN IF IsFinite(a) /\ IsFinite(b)
     THEN IF a.neg # b.neg THEN a.neg ELSE IF a.neg THEN MagLess(b, a) ELSE MagLess(a, b)
     ELSE IF a = NaN \/ b = NaN \/ a = b THEN FALSE
     ELSE a = NegInf \/ b = Inf

\* min(a, b), max(a, b) of Python: the first argument unless the second is strictly smaller (larger)
NumMin(a, b) == IF NumLess(b, a) THEN b ELSE a

NumMax(a, b) == IF NumLess(a, b) THEN b ELSE a

\* the value of a string of digits
RECURSIVE DigitsValue(_)
DigitsValue(s) ==
  IF s = <<>> THEN 0
  ELSE 10 * DigitsValue(SubSeq(s, 1, Len(s) - 1)) + DigitVal(s[Len(s)])

\* the first position at or after i that holds no digit: the end of \d* at i
DigitsTo(s, i) ==
  IF i > Len(s) THEN i
  ELSE CHOOSE e \in i..(Len(s) + 1) :
         (e = Len(s) + 1 \/ ~IsDigit(s[e])) /\ \A j \in i..(e - 1) : IsDigit(s[j])

\* the end of \s* at i
SpaceTo(s, i) ==
  IF i > Len(s) THEN i
  ELSE CHOOSE e \in i..(Len(s) + 1) :
         (e = Len(s) + 1 \/ ~IsSpace(s[e])) /\ \A j \in i..(e - 1) : IsSpace(s[j])

\* what float() returns or raises
FloatValue(val) == [exc |-> "", val |-> <<val>>]

FloatRaised == [exc |-> "ValueError", val |-> <<>>]

(* Decimal to double.  A double is f * 2^e with f below 2^53 and e from    *)
(* -1074 to 971, f being at least 2^52 unless e = -1074 (the subnormals).  *)
(* Quotient is D * 10^E / 2^g truncated, for g a multiple of 32, with      *)
(* whether a fraction was cut off: dividing by 2^g is multiplying by 5^g   *)
(* and dividing by 10^g.                                                   *)
Quotient(D, E, g) ==
  LET Truncated(a, sh) ==
        [int  |-> IF sh >= 0 THEN ShiftUp(a, sh) ELSE ShiftDown(a, 0 - sh),
         rest |-> sh < 0 /\ ~EndsInZeros(a, 0 - sh)]
  IN Truncated(BigMul(D, IF g <= 0 THEN Pow2By32[((0 - g) \div 32) + 1] ELSE Pow5By32[(g \div 32) + 1]),
               IF g <= 0 THEN E ELSE E - g)

(* J / 10^n rounded to an integer f, half to even, the half counting as    *)
(* exceeded when rest tells that J was truncated; f * 2^e, with 2^53 * 2^e *)
(* written 2^52 * 2^(e + 1)                                                *)
RoundHalfEven(J, n, rest, e) ==
  LET RoundedUp ==
        \/ DecDigit(J, n) > 5
        \/ /\ DecDigit(J, n) = 5
           /\ (rest \/ ~EndsInZeros(J, n - 1) \/ Limb(ShiftDown(J, n), 1) % 2 = 1)
      Renormalized(f) ==
        IF f = Pow2Small[54] THEN [f |-> Pow2Small[53], e |-> e + 1] ELSE [f |-> f, e |-> e]
  IN Renormalized(IF RoundedUp THEN BigAdd(ShiftDown(J, n), <<1>>) ELSE ShiftDown(J, n))

(* The quotient q by 2^g rounded to 53 bits, or to fewer in the subnormals *)
(* where no bit under 2^-1074 is kept: the n bits it has too many, at      *)
(* least -1074 - g of them, are rounded away, int / 2^n being int * 5^n /  *)
(* 10^n.                                                                   *)
RoundQuotient(q, g) ==
  LET low == IF g < -1075 THEN -1074 - g ELSE 1
      n == CHOOSE m \in low..(low + 48) :
             BigLess(q.int, Pow2Small[54 + m]) /\ (m = low \/ ~BigLess(q.int, Pow2Small[53 + m]))
  IN RoundHalfEven(BigMul(q.int, Pow5Small[n + 1]), n, q.rest, g + n)

(* The double nearest D * 10^E, ties to even, for 10^-326 <= D * 10^E <    *)
(* 10^310.  The exponent g is a multiple of 32 at least 54 bits under the  *)
(* first bit of the number, and not under -1088.                           *)
NearestDouble(D, E) ==
  LET guess == ((((DecLen(D) + E) - 1) * 33219) \div 10000) - 55
      g == IF guess < -1088 THEN -1088 ELSE 32 * (guess \div 32)
  IN RoundQuotient(Quotient(D, E, g), g)

(* Double to shortest decimal.  In units of 10^q the double is X, and the  *)
(* decimals that round to it lie from lo to hi, the ends included when f   *)
(* is even.  Multiples: the multiples of 10^t next to X that lie there.    *)
Multiples(X, lo, hi, incl, t) ==
  LET Within(c) ==
        IF incl THEN ~BigLess(c, lo) /\ ~BigLess(hi, c) ELSE BigLess(lo, c) /\ BigLess(c, hi)
      Up(down) == {down, BigAdd(down, ShiftUp(<<1>>, t))}
  IN {c \in Up(ShiftUp(ShiftDown(X, t), t)) : Within(c)}

\* c is as good as d: fewer digits first, then nearer to X, then an even last digit
Preferred(c, d, X) ==
  LET SigDigits(a) == DecLen(a) - TrailingZeros(a)
      Distance(a) == IF BigLess(a, X) THEN BigSub(X, a) ELSE BigSub(a, X)
  IN \/ c = d
     \/ SigDigits(c) < SigDigits(d)
     \/ /\ SigDigits(c) = SigDigits(d)
        /\ \/ BigLess(Distance(c), Distance(d))
           \/ Distance(c) = Distance(d) /\ DecDigit(c, TrailingZeros(c) + 1) % 2 = 0

Best(cs, X) == CHOOSE c \in cs : \A d \in cs : Preferred(c, d, X)

\* c * 10^q without the zeros c ends in
Decimal(neg, c, q) ==
  LET Digits(a) == [j \in 1..DecLen(a) |-> DecDigit(a, DecLen(a) + 1 - j)]
  IN Finite(neg, Digits(ShiftDown(c, TrailingZeros(c))), q + TrailingZeros(c))

(* The best decimal from lo to hi, where some multiple of 10^t0 lies: the  *)
(* shortest one is next to X among the multiples of some power of ten.     *)
ShortestIn(neg, X, lo, hi, incl, t0, q) ==
  Decimal(neg, Best(UNION {Multiples(X, lo, hi, incl, t) : t \in t0..DecLen(hi)}, X), q)

(* The shortest decimal of f * 2^r * S * 10^q, r >= 2.  Half the gap to    *)
(* the next double is H = 2^(r - 1) * S, and to the one before it Q =      *)
(* 2^(r - 2) * S when narrow: hi - lo is at least 3 Q, and 10^(DecLen(S) - *)
(* 1) at most S, which is at most Q.                                       *)
ShortestScaled(neg, f, r, S, q, narrow) ==
  LET X == BigMul(BigMul(f, Pow2Small[r + 1]), S)
  IN ShortestIn(neg, X, BigSub(X, BigMul(Pow2Small[IF narrow THEN r - 1 ELSE r], S)),
                BigAdd(X, BigMul(Pow2Small[r], S)), Limb(f, 1) % 2 = 0,
                DecLen(S) - 1, q)

(* The float of the double x = f * 2^e: zero, inf past the largest double, *)
(* or its shortest decimal.  f * 2^e is f * 2^r * S with r from 2 to 33    *)
(* and S a power of 2^32 when e >= 2, and else f * 2^(e + k) * 5^k / 10^k  *)
(* for k a multiple of 32 with e + k from 2 to 33.  The double before it   *)
(* is half as far as the one after it when f = 2^52, but for the least     *)
(* normal double.                                                          *)
DoubleDigits(neg, x) ==
  LET k == IF x.e >= 2 THEN 0 ELSE 32 * (((2 - x.e) + 31) \div 32)
  IN IF x.f = <<>> THEN Finite(FALSE, <<>>, 0)
     ELSE IF x.e > 971 THEN IF neg THEN NegInf ELSE Inf
     ELSE ShortestScaled(neg, x.f,
                         IF x.e >= 2 THEN ((x.e - 2) % 32) + 2 ELSE x.e + k,
                         IF x.e >= 2 THEN Pow2By32[((x.e - 2) \div 32) + 1] ELSE Pow5By32[(k \div 32) + 1],
                         0 - k, x.f = Pow2Small[53] /\ x.e > -1074)

(* The float of the digits mag times 10^shift, negated when neg.  Without  *)
(* the zeros at either end of mag it is ds * 10^E.  Up to 15 digits        *)
(* between 10^-307 and 10^308 are their own shortest decimal; everything   *)
(* else is rounded to the nearest double, which is inf from 2^1024 on and  *)
(* zero up to 2^-1075.                                                     *)
FloatScaled(mag, neg, shift) ==
  LET Leading ==
        CHOOSE n \in 0..Len(mag) : (n = Len(mag) \/ mag[n + 1] # 0) /\ \A j \in 1..n : mag[j] = 0
      Ending ==
        CHOOSE n \in 0..Len(mag) :
          (n = Len(mag) \/ mag[Len(mag) - n] # 0) /\ \A j \in (Len(mag) - n + 1)..Len(mag) : mag[j] = 0
      ds == SubSeq(mag, Leading + 1, Len(mag) - Ending)
      E == shift + Ending
  IN IF Leading = Len(mag) THEN FloatValue(Finite(FALSE, <<>>, 0))
     ELSE IF Len(ds) + E > 310 THEN FloatValue(IF neg THEN NegInf ELSE Inf)
     ELSE IF Len(ds) + E < -325 THEN FloatValue(Finite(FALSE, <<>>, 0))
     ELSE IF Len(ds) <= 15 /\ Len(ds) + E >= -306 /\ Len(ds) + E <= 308
     THEN FloatValue(Finite(neg, ds, E))
     ELSE FloatValue(DoubleDigits(neg, NearestDouble(FromDigits(ds), E)))

(* The exponent whose digits are body[x .. g-1] and must end the body, or   *)
(* nothing.  Of more than nine digits past its leading zeros float() keeps *)
(* no more than that it is huge: 1100000000.                               *)
ExponentAt(body, expNeg, x, g) ==
  LET Significant(s) ==
        SubSeq(s, CHOOSE n \in 1..(Len(s) + 1) :
                    (n = Len(s) + 1 \/ DigitVal(s[n]) # 0) /\ \A j \in 1..(n - 1) : DigitVal(s[j]) = 0,
               Len(s))
      Exponent(s) == IF Len(s) > 9 THEN 1100000000 ELSE DigitsValue(s)
      Signed(n) == IF expNeg THEN 0 - n ELSE n
  IN IF g > x /\ g = Len(body) + 1
     THEN <<Signed(Exponent(Significant(Slice(body, x, g))))>>
     ELSE <<>>

(* The exponent that follows the digits at f: 0 when nothing follows, that *)
(* of e / E, an optional sign and digits, and nothing for anything else    *)
ExponentOf(body, f) ==
  IF f = Len(body) + 1 THEN <<0>>
  ELSE IF body[f] \notin {"e", "E"} THEN <<>>
  ELSE IF f + 1 <= Len(body) /\ body[f + 1] \in {"+", "-"}
       THEN ExponentAt(body, body[f + 1] = "-", f + 2, DigitsTo(body, f + 2))
       ELSE ExponentAt(body, FALSE, f + 1, DigitsTo(body, f + 1))

(* The unsigned body of a float literal, negated when neg: inf, infinity   *)
(* or nan in any letter case, or digits whose integer part ends at d and   *)
(* whose fraction ends at f, at least one digit in all, and then an        *)
(* optional exponent.  The digits of both parts, most significant first,   *)
(* are scaled by the exponent less the number of digits of the fraction.   *)
FloatOfDigits(body, neg, d, f) ==
  LET nFrac == IF f > d THEN f - d - 1 ELSE 0
      DigitVals(s) == [i \in 1..Len(s) |-> DigitVal(s[i])]
  IN IF Lower(body) \in {<<"i", "n", "f">>, <<"i", "n", "f", "i", "n", "i", "t", "y">>}
     THEN FloatValue(IF neg THEN NegInf ELSE Inf)
     ELSE IF Lower(body) = <<"n", "a", "n">> THEN FloatValue(NaN)
     ELSE IF (d - 1) + nFrac >= 1 /\ ExponentOf(body, f) # <<>>
     THEN FloatScaled(DigitVals(Slice(body, 1, d) \o Slice(body, d + 1, f)), neg,
                      ExponentOf(body, f)[1] - nFrac)
     ELSE FloatRaised

FloatOfInteger(body, neg, d) ==
  FloatOfDigits(body, neg, d,
                IF d <= Len(body) /\ body[d] = "." THEN DigitsTo(body, d + 1) ELSE d)

\* the literal past its sign
FloatOfSigned(t) ==
  LET sgn == t # <<>> /\ t[1] \in {"+", "-"}
  IN FloatOfInteger(IF sgn THEN Tail(t) ELSE t, sgn /\ t[1] = "-",
                    DigitsTo(IF sgn THEN Tail(t) ELSE t, 1))

\* an underscore stands between two digits
UnderscoresBetweenDigits(t) ==
  \A i \in 1..Len(t) :
    t[i] = "_" => i > 1 /\ IsDigit(t[i - 1]) /\ i < Len(t) /\ IsDigit(t[i + 1])

WithoutUnderscores(t) == SelectSeq(t, LAMBDA c : c # "_")

\* float(t) for t without surrounding whitespace
FloatOfStripped(t) ==
  IF UnderscoresBetweenDigits(t) THEN FloatOfSigned(WithoutUnderscores(t)) ELSE FloatRaised

\* the whitespace float() skips around the literal: not U+001C .. U+001F
FloatSpace == Whitespace \ {"U+001C", "U+001D", "U+001E", "U+001F"}

(* float(s): optional surrounding whitespace, an optional sign, then inf, *)
(* infinity, nan, or a decimal literal with optional point, exponent and  *)
(* underscores between digits; the digits are any \d.  [exc |-> "", val   *)
(* |-> <<float>>], or the exception raised.  The value is the double       *)
(* nearest the decimal the literal denotes.                                *)
PyFloat(s) == FloatOfStripped(StripChars(s, FloatSpace))

\* the first x of a list of optional values that is not None, or None
FirstSome(ms) ==
  IF \E i \in 1..Len(ms) : ms[i] # <<>>
  THEN ms[CHOOSE i \in 1..Len(ms) : ms[i] # <<>> /\ \A j \in 1..(i - 1) : ms[j] = <<>>]
  ELSE <<>>

-----------------------------------------------------------------------------
(* flag_logic.py *)

\* FractionEnd for a pattern that lacks the fraction, -?\d+
FractionEndInteger(d, f) == d

\* the end of (?:\.\d+)? after the digits that end at d, f being the end of \d* after a point at d
FractionEnd(d, f) == IF f > d + 1 THEN f ELSE d

\* the end of \d+(?:\.\d+)? at j, d being the end of \d* at j; 0 when there is no digit
DigitsEnd(s, j, d) ==
  IF d = j THEN 0
  ELSE FractionEnd(d, IF d <= Len(s) /\ s[d] = "." THEN DigitsTo(s, d + 1) ELSE d)

\* \d+(?:\.\d+)? at j
UnsignedMatchAt(s, j) == DigitsEnd(s, j, DigitsTo(s, j))

\* NUMBER_PATTERN  -?\d+(?:\.\d+)?  matched at position i: the end of the
\* match, or 0.  Each quantifier is greedy and nothing follows the pattern,
\* so the match at i is the longest one.
NumberMatchAt(s, i) ==
  IF i < 1 \/ i > Len(s) THEN 0
  ELSE UnsignedMatchAt(s, IF s[i] = "-" THEN i + 1 ELSE i)

\* the range tokens of RANGE_PATTERN:  -|ndash|mdash|to|TO  at position i: the end, or 0
RangeTokenAt(s, i) ==
  IF i <= Len(s) /\ s[i] \in {"-", "ndash", "mdash"} THEN i + 1
  ELSE IF OccursAt(s, i, <<"t", "o">>) \/ OccursAt(s, i, <<"T", "O">>) THEN i + 2
  ELSE 0

\* the match of RANGE_PATTERN from i whose numbers are s[i .. e1-1] and s[b2 .. e2-1]
RangeMatch(s, i, e1, b2, e2) ==
  IF e2 = 0 THEN <<>>
  ELSE <<[start |-> i, end |-> e2, low |-> Slice(s, i, e1), high |-> Slice(s, b2, e2)]>>

\* RANGE_PATTERN from i, past the first number and the range token that ends at t
RangeAfterToken(s, i, e1, t) ==
  IF t = 0 THEN <<>>
  ELSE RangeMatch(s, i, e1, SpaceTo(s, t), NumberMatchAt(s, SpaceTo(s, t)))

\* RANGE_PATTERN from i, past the first number that ends at e1
RangeAfterLow(s, i, e1) ==
  IF e1 = 0 THEN <<>>
  ELSE RangeAfterToken(s, i, e1, RangeTokenAt(s, SpaceTo(s, e1)))

(* RANGE_PATTERN  NUMBER \s* token \s* NUMBER  matched at position i.  A   *)
(* shorter first number or a shorter \s* is followed by a digit, a point   *)
(* or a space, none of which starts the next element, so backtracking      *)
(* finds no other match than the greedy one.                               *)
RangeMatchAt(s, i) == RangeAfterLow(s, i, NumberMatchAt(s, i))

\* RANGE_PATTERN.search(s): the match at the first position that has one
RangeSearch(s) == FirstSome([i \in 1..Len(s) |-> RangeMatchAt(s, i)])

\* the alternation  <=|>=|<|>  at position i: the end of the first alternative that matches, or 0
SymbolAt(s, i) ==
  IF OccursAt(s, i, <<"<", "=">>) \/ OccursAt(s, i, <<">", "=">>) THEN i + 2
  ELSE IF i <= Len(s) /\ s[i] \in {"<", ">"} THEN i + 1
  ELSE 0

\* the match of SINGLE_BOUND_PATTERN from i: symbol s[i .. e1-1], value s[b2 .. e2-1]
SingleBoundMatch(s, i, e1, b2, e2) ==
  IF e2 = 0 THEN <<>>
  ELSE <<[start |-> i, end |-> e2, symbol |-> Slice(s, i, e1), value |-> Slice(s, b2, e2)]>>

\* SINGLE_BOUND_PATTERN from i, past the symbol that ends at e1
SingleBoundAfterSymbol(s, i, e1) ==
  IF e1 = 0 THEN <<>>
  ELSE SingleBoundMatch(s, i, e1, SpaceTo(s, e1), NumberMatchAt(s, SpaceTo(s, e1)))

(* SINGLE_BOUND_PATTERN  symbol \s* NUMBER  matched at position i.  When   *)
(* <= or >= matched, the shorter alternative < or > is followed by "=",    *)
(* which starts neither \s* nor NUMBER: the first alternative decides.     *)
SingleBoundMatchAt(s, i) == SingleBoundAfterSymbol(s, i, SymbolAt(s, i))

\* SINGLE_BOUND_PATTERN.search(s)
SingleBoundSearch(s) == FirstSome([i \in 1..Len(s) |-> SingleBoundMatchAt(s, i)])

\* NUMBER_PATTERN.findall(s) from position i on: the successive non-overlapping matches
RECURSIVE NumberFindAllFrom(_, _)
NumberFindAllFrom(s, i) ==
  IF ~\E k \in i..Len(s) : NumberMatchAt(s, k) # 0 THEN <<>>
  ELSE LET m == CHOOSE k \in i..Len(s) :
                  NumberMatchAt(s, k) # 0 /\ \A j \in i..(k - 1) : NumberMatchAt(s, j) = 0
       IN <<Slice(s, m, NumberMatchAt(s, m))>> \o NumberFindAllFrom(s, NumberMatchAt(s, m))

NumberFindAll(s) == NumberFindAllFrom(s, 1)

\* ParsedRange(low, high); exc is the exception that escaped building it, "" when none
ParsedRange(low, high) == [exc |-> "", low |-> low, high |-> high]

\* an exception escaping _parse_range
RangeRaised(exc) == [exc |-> exc, low |-> <<>>, high |-> <<>>]

\* classify with the bounds excluded from the interval
classifyExclusive(self, value) ==
  IF self.low = <<>> \/ self.high = <<>> THEN <<>>
  ELSE IF ~NumLess(self.low[1], value) THEN <<"l", "o", "w">>
  ELSE IF ~NumLess(value, self.high[1]) THEN <<"h", "i", "g", "h">>
  ELSE <<"n", "o", "r", "m", "a", "l">>

\* ParsedRange.classify
classify(self, value) ==
  IF self.low = <<>> \/ self.high = <<>> THEN <<>>
  ELSE IF NumLess(value, self.low[1]) THEN <<"l", "o", "w">>
  ELSE IF NumLess(self.high[1], value) THEN <<"h", "i", "g", "h">>
  ELSE <<"n", "o", "r", "m", "a", "l">>

\* _parse_float catching TypeError alone
CatchTypeErrorOnly(r) ==
  IF r.exc \in {"TypeError"} THEN [exc |-> "", val |-> <<>>] ELSE r

\* the except clause of _parse_float: None on TypeError and ValueError
CatchFloatErrors(r) ==
  IF r.exc \in {"TypeError", "ValueError"} THEN [exc |-> "", val |-> <<>>] ELSE r

\* _parse_float
_parse_float(value) == CatchFloatErrors(PyFloat(value))

\* the separator normalisation at the head of _parse_range
NormalizeSeparators(reference_range) ==
  Strip(Replace(Replace(Replace(Replace(reference_range,
      <<"t", "o">>, <<"-">>), <<"T", "O">>, <<"-">>), <<"ndash">>, <<"-">>), <<"mdash">>, <<"-">>))

\* min/max ordering of the first two numbers of the third tier
FallbackBounds(n1, n2) ==
  IF n1.exc # "" THEN RangeRaised(n1.exc)
  ELSE IF n2.exc # "" THEN RangeRaised(n2.exc)
  ELSE IF n1.val # <<>> /\ n2.val # <<>>
       THEN ParsedRange(<<NumMin(n1.val[1], n2.val[1])>>, <<NumMax(n1.val[1], n2.val[1])>>)
       ELSE ParsedRange(<<>>, <<>>)

\* the third tier of _parse_range, nums being the numbers found
FallbackOf(nums) ==
  IF Len(nums) < 2 THEN ParsedRange(<<>>, <<>>)
  ELSE FallbackBounds(_parse_float(nums[1]), _parse_float(nums[2]))

\* the third tier of _parse_range: the first two bare numbers, min/max ordered
ParseRangeFallback(ref) == FallbackOf(NumberFindAll(ref))

\* SingleBound with the bound on the wrong side
SingleBoundSwapped(symbol, v) ==
  IF v.exc # "" THEN <<RangeRaised(v.exc)>>
  ELSE IF v.val = <<>> THEN <<ParsedRange(<<>>, <<>>)>>
  ELSE IF symbol \in {<<">">>, <<">", "=">>} THEN <<ParsedRange(<<>>, v.val)>>
  ELSE IF symbol \in {<<"<">>, <<"<", "=">>} THEN <<ParsedRange(v.val, <<>>)>>
  ELSE <<>>

\* the one-sided interval of the second tier; <<>> when the tier falls through
SingleBound(symbol, v) ==
  IF v.exc # "" THEN <<RangeRaised(v.exc)>>
  ELSE IF v.val = <<>> THEN <<ParsedRange(<<>>, <<>>)>>
  ELSE IF symbol \in {<<">">>, <<">", "=">>} THEN <<ParsedRange(v.val, <<>>)>>
  ELSE IF symbol \in {<<"<">>, <<"<", "=">>} THEN <<ParsedRange(<<>>, v.val)>>
  ELSE <<>>

\* the second tier of _parse_range, m being the match of SINGLE_BOUND_PATTERN
SingleOf(m) ==
  IF m = <<>> THEN <<>> ELSE SingleBound(m[1].symbol, _parse_float(m[1].value))

\* the second tier of _parse_range: a comparison symbol and one number
ParseRangeSingle(ref) == SingleOf(SingleBoundSearch(ref))

\* OrderBounds without the swap
OrderBoundsAsParsed(low, high) == ParsedRange(<<low>>, <<high>>)

\* the bounds of the first tier of _parse_range, swapped when low > high
OrderBounds(low, high) ==
  IF NumLess(high, low) THEN ParsedRange(<<high>>, <<low>>) ELSE ParsedRange(<<low>>, <<high>>)

\* the interval of the first tier; <<>> when the tier falls through
DualBounds(low, high) ==
  IF low.exc # "" THEN <<RangeRaised(low.exc)>>
  ELSE IF high.exc # "" THEN <<RangeRaised(high.exc)>>
  ELSE IF low.val # <<>> /\ high.val # <<>> THEN <<OrderBounds(low.val[1], high.val[1])>>
  ELSE <<>>

\* the first tier of _parse_range, m being the match of RANGE_PATTERN
DualOf(m) ==
  IF m = <<>> THEN <<>> ELSE DualBounds(_parse_float(m[1].low), _parse_float(m[1].high))

\* the first tier of _parse_range: two numbers joined by a range token
ParseRangeDual(ref) == DualOf(RangeSearch(ref))

\* the tiers of _parse_range in order: the first that does not fall through decides
RangeTiers(ref) ==
  FirstSome(<<ParseRangeDual(ref), ParseRangeSingle(ref), <<ParseRangeFallback(ref)>> >>)[1]

\* _parse_range
_parse_range(reference_range) ==
  IF reference_range = <<>> THEN ParsedRange(<<>>, <<>>)
  ELSE RangeTiers(NormalizeSeparators(reference_range))

\* compute_flag past the parsing of its arguments
FlagOf(numeric_value, parsed_range) ==
  IF numeric_value.exc # "" THEN [exc |-> numeric_value.exc, flag |-> <<>>]
  ELSE IF numeric_value.val = <<>> THEN [exc |-> "", flag |-> <<>>]
  ELSE IF parsed_range.exc # "" THEN [exc |-> parsed_range.exc, flag |-> <<>>]
  ELSE IF parsed_range.low = <<>> \/ parsed_range.high = <<>> THEN [exc |-> "", flag |-> <<>>]
  ELSE [exc |-> "", flag |-> classify(parsed_range, numeric_value.val[1])]

\* compute_flag: [exc |-> the exception that escaped, "" when none, flag |-> the result]
compute_flag(value, reference_range) ==
  FlagOf(_parse_float(Strip(value)), _parse_range(reference_range))

-----------------------------------------------------------------------------
(* extractor.py *)

\* a match object's span, None when the pattern does not match at i
SpanTo(i, e) == IF e = 0 THEN <<>> ELSE <<[start |-> i, end |-> e]>>

\* VALUE_PATTERN.search(s): the same pattern as NUMBER_PATTERN, at the first position that matches
ValueSearch(s) == FirstSome([i \in 1..Len(s) |-> SpanTo(i, NumberMatchAt(s, i))])

(* PATIENT_FIELD_PATTERNS: per field, its patterns in priority order.  A   *)
(* pattern  label\s*[:\-]\s*(.+)  is given by its label; the one label     *)
(* with an optional part, Ref(?:erring)? Doctor, by its two readings in    *)
(* the order the regex engine tries them.                                  *)
PATIENT_FIELD_PATTERNS ==
  [
    name |-> <<<<<<"P", "a", "t", "i", "e", "n", "t", " ", "N", "a", "m", "e">>>>, <<<<"N", "a", "m", "e">>>>>>,
    age |-> <<<<<<"A", "g", "e">>>>>>,
    gender |-> <<<<<<"G", "e", "n", "d", "e", "r">>>>, <<<<"S", "e", "x">>>>>>,
    patient_id |-> <<<<<<"P", "a", "t", "i", "e", "n", "t", " ", "I", "D">>>>, <<<<"I", "D">>>>>>,
    date_of_report |-> <<<<<<"D", "a", "t", "e">>>>, <<<<"D", "a", "t", "e", " ", "o", "f", " ", "R", "e", "p", "o", "r", "t">>>>>>,
    referring_doctor |-> <<<<<<"R", "e", "f", "e", "r", "r", "i", "n", "g", " ", "D", "o", "c", "t", "o", "r">>, <<"R", "e", "f", " ", "D", "o", "c", "t", "o", "r">>>>>>,
    laboratory_name |-> <<<<<<"L", "a", "b", "o", "r", "a", "t", "o", "r", "y">>>>, <<<<"L", "a", "b", " ", "N", "a", "m", "e">>>>>> ]

\* the keys of PATIENT_FIELD_PATTERNS
PatientKeys ==
  {"name", "age", "gender", "patient_id", "date_of_report", "referring_doctor", "laboratory_name"}

(* The characters a letter of a label matches under re.IGNORECASE beside  *)
(* its two cases: the dotted capital I and the dotless i for i, the long  *)
(* s for s.                                                                *)
IgnoreCaseExtra == [i |-> {"U+0130", "U+0131"}, s |-> {"U+017F"}]

\* the character c of the text matches the character p of a label under re.IGNORECASE
MatchesIgnoreCase(c, p) ==
  \/ LowerChar(c) = LowerChar(p)
  \/ LowerChar(p)[1] \in DOMAIN IgnoreCaseExtra /\ c \in IgnoreCaseExtra[LowerChar(p)[1]]

\* a literal label under re.IGNORECASE at position i
LabelAt(s, i, label) ==
  /\ i + Len(label) - 1 <= Len(s)
  /\ \A j \in 1..Len(label) : MatchesIgnoreCase(s[i + j - 1], label[j])

\* the end of .* at i: "." matches every character but "\n"
DotTo(s, i) ==
  IF i > Len(s) THEN i
  ELSE CHOOSE e \in i..(Len(s) + 1) :
         (e = Len(s) + 1 \/ s[e] = "\n") /\ \A j \in i..(e - 1) : s[j] # "\n"

(* \s*(.+) at position q: \s* takes all the whitespace up to w, then gives *)
(* back one character at a time until "." can match; the start of the      *)
(* group, or 0.                                                            *)
GroupStartWithin(s, q, w) ==
  LET ok(g) == g <= Len(s) /\ s[g] # "\n"
  IN IF \E g \in q..w : ok(g)
     THEN CHOOSE g \in q..w : ok(g) /\ \A h \in (g + 1)..w : ~ok(h)
     ELSE 0

GroupStart(s, q) == GroupStartWithin(s, q, SpaceTo(s, q))

\* group(1), which starts at g and ends with its line
FieldGroup(s, g) == IF g = 0 THEN <<>> ELSE <<Slice(s, g, DotTo(s, g))>>

\* [:\-]\s*(.+) at position w
FieldAfterLabel(s, w) ==
  IF w <= Len(s) /\ s[w] \in {":", "-"} THEN FieldGroup(s, GroupStart(s, w + 1)) ELSE <<>>

\* label\s*[:\-]\s*(.+) matched at position i: <<group(1)>> or <<>>
FieldMatchAt(s, i, label) ==
  IF LabelAt(s, i, label) THEN FieldAfterLabel(s, SpaceTo(s, i + Len(label))) ELSE <<>>

\* one pattern at position i: the first of its readings that matches
PatternMatchAt(s, i, readings) ==
  FirstSome([r \in 1..Len(readings) |-> FieldMatchAt(s, i, readings[r])])

\* re.search(pattern, text, re.IGNORECASE): <<group(1)>> of the leftmost match, or <<>>
PatternSearch(s, readings) ==
  FirstSome([i \in 1..Len(s) |-> PatternMatchAt(s, i, readings)])

\* _clean_text
_clean_text(value) == StripChars(Strip(value), {"-", ":"})

\* details[key] for the match that decides, "" when no pattern matches
CleanGroup(m) == IF m = <<>> THEN <<>> ELSE _clean_text(m[1])

\* the inner loop of _extract_patient_details: the first pattern that matches decides
FirstPattern(text, patterns) ==
  CleanGroup(FirstSome([p \in 1..Len(patterns) |-> PatternSearch(text, patterns[p])]))

\* _extract_patient_details with details starting empty: a key per field found
ExtractPatientDetailsFound(text) ==
  [key \in {k \in PatientKeys : FirstPattern(text, PATIENT_FIELD_PATTERNS[k]) # <<>>} |->
     FirstPattern(text, PATIENT_FIELD_PATTERNS[key])]

\* _extract_patient_details
_extract_patient_details(text) ==
  [key \in PatientKeys |-> FirstPattern(text, PATIENT_FIELD_PATTERNS[key])]

\* str.splitlines() on "\n", "\r" and "\r\n"
SplitLines(s) ==
  LET Breaks == {b \in 1..Len(s) :
                   IsLineBreak(s[b]) /\ ~(s[b] = "\n" /\ b > 1 /\ s[b - 1] = "\r")}
      After(b) == IF OccursAt(s, b, <<"\r", "\n">>) THEN b + 2 ELSE b + 1
      Break(k) == CHOOSE b \in Breaks : Cardinality({c \in Breaks : c < b}) = k - 1
      Start(k) == IF k = 1 THEN 1 ELSE After(Break(k - 1))
      Last(n) == IF Start(n + 1) <= Len(s) THEN <<SubSeq(s, Start(n + 1), Len(s))>> ELSE <<>>
  IN Flatten([k \in 1..Cardinality(Breaks) |-> <<Slice(s, Start(k), Break(k))>>])
       \o Last(Cardinality(Breaks))

(* " ".join(s.split()): the words of s, the runs of characters that are   *)
(* not whitespace, with one space between them                             *)
JoinSplit(s) ==
  LET Starts == {i \in 1..Len(s) : ~IsSpace(s[i]) /\ (i = 1 \/ IsSpace(s[i - 1]))}
      Start(k) == CHOOSE i \in Starts : Cardinality({j \in Starts : j < i}) = k - 1
      End(i) == CHOOSE e \in (i + 1)..(Len(s) + 1) :
                  (e = Len(s) + 1 \/ IsSpace(s[e])) /\ \A j \in i..(e - 1) : ~IsSpace(s[j])
      Word(i) == Slice(s, i, End(i))
  IN Flatten([k \in 1..Cardinality(Starts) |->
                IF k = 1 THEN Word(Start(k)) ELSE <<" ">> \o Word(Start(k))])

\* the lines _iter_clean_lines yields: the blank ones are skipped
YieldLine(line) == IF line = <<>> THEN <<>> ELSE <<line>>

\* _iter_clean_lines, from a list of raw lines
CleanLines(raw) == Flatten([i \in 1..Len(raw) |-> YieldLine(JoinSplit(raw[i]))])

_iter_clean_lines(text) == CleanLines(SplitLines(text))

\* the metadata keywords of _parse_test_line
MetadataKeywords ==
  {<<"p", "a", "t", "i", "e", "n", "t">>,
   <<"r", "e", "f", "e", "r", "r", "i", "n", "g">>,
   <<"d", "o", "c", "t", "o", "r">>,
   <<"l", "a", "b">>,
   <<"r", "e", "p", "o", "r", "t">>,
   <<"a", "g", "e">>,
   <<"g", "e", "n", "d", "e", "r">>}

\* the record _parse_test_line returns
TestRecord(line, value_match, name, remainder, ref_match) ==
  <<[name |-> name,
     value |-> Strip(Slice(line, value_match.start, value_match.end)),
     unit |-> IF ref_match # <<>>
              THEN StripChars(Slice(remainder, 1, ref_match[1].start), {"-", ":", " "})
              ELSE Strip(remainder),
     reference_range |-> IF ref_match # <<>>
                         THEN Strip(Slice(remainder, ref_match[1].start, ref_match[1].end))
                         ELSE <<>>,
     flag |-> <<>>,
     raw_text_snippet |-> Strip(line)]>>

\* _parse_test_line past the value match, with the name and the remainder
TestOfName(line, value_match, name, remainder) ==
  IF Len(name) < 2 THEN <<>>
  ELSE TestRecord(line, value_match, name, remainder, RangeSearch(remainder))

\* _parse_test_line past the search for the value
TestOfValue(line, value_match) ==
  IF value_match = <<>> THEN <<>>
  ELSE TestOfName(line, value_match[1],
                  StripChars(Slice(line, 1, value_match[1].start), {"-", ":", " "}),
                  Strip(SubSeq(line, value_match[1].end, Len(line))))

\* the keyword test on the line as written, not lowered
HasMetadataKeywordAsWritten(line) == \E keyword \in MetadataKeywords : Contains(line, keyword)

\* the metadata keyword test of _parse_test_line
HasMetadataKeyword(line) == \E keyword \in MetadataKeywords : Contains(Lower(line), keyword)

\* _parse_test_line: <<record>> or <<>> (None)
_parse_test_line(line) ==
  IF HasMetadataKeyword(line) THEN <<>>
  ELSE IF ~ \E i \in 1..Len(line) : StrIsDigit(line[i]) THEN <<>>
  ELSE TestOfValue(line, ValueSearch(line))

\* the loop of _parse_tests over the clean lines
ParseLines(lines) == Flatten([i \in 1..Len(lines) |-> _parse_test_line(lines[i])])

\* _parse_tests
_parse_tests(text) == ParseLines(_iter_clean_lines(text))

\* the fields of a test, each stripped
Normalized(test) ==
  [name |-> Strip(test.name),
   value |-> Strip(test.value),
   unit |-> Strip(test.unit),
   reference_range |-> Strip(test.reference_range),
   flag |-> Strip(test.flag),
   raw_text_snippet |-> Strip(test.raw_text_snippet)]

\* the normalized test with the flag compute_flag returned
WithFlag(normalized, computed) ==
  [exc |-> computed.exc, test |-> [normalized EXCEPT !.flag = computed.flag]]

\* the flag computed with the arguments of compute_flag in the other order
FlagTestSwapped(normalized) ==
  IF normalized.flag # <<>> THEN [exc |-> "", test |-> normalized]
  ELSE WithFlag(normalized, compute_flag(normalized.reference_range, normalized.value))

\* the flag of a normalized test is computed when it is empty
FlagTest(normalized) ==
  IF normalized.flag # <<>> THEN [exc |-> "", test |-> normalized]
  ELSE WithFlag(normalized, compute_flag(normalized.value, normalized.reference_range))

\* the body of the loop of _sanitize_tests: [exc, test]
SanitizeTest(test) == FlagTest(Normalized(test))

\* the list the loop of _sanitize_tests appends to, the first exception ending the loop
SanitizeAppend(results) ==
  IF \E i \in 1..Len(results) : results[i].exc # ""
  THEN [exc |-> results[CHOOSE i \in 1..Len(results) :
                          results[i].exc # "" /\ \A j \in 1..(i - 1) : results[j].exc = ""].exc,
        tests |-> <<>>]
  ELSE [exc |-> "", tests |-> Flatten([i \in 1..Len(results) |-> <<results[i].test>>])]

\* _sanitize_tests: [exc |-> the exception that escaped, "" when none, tests |-> the list]
_sanitize_tests(tests) == SanitizeAppend([i \in 1..Len(tests) |-> SanitizeTest(tests[i])])

\* "\n".join(texts)
JoinLines(texts) ==
  Flatten([i \in 1..Len(texts) |-> IF i = 1 THEN texts[i] ELSE <<"\n">> \o texts[i]])

(* Path(filename).suffix.lower().  The components of a path are the runs  *)
(* of characters between its "/", the empty ones and the "." ones put     *)
(* aside; its name is the last of them, "" when there is none; the suffix *)
(* goes from the last "." of the name, and is "" when the name has none   *)
(* or begins or ends with it.                                             *)
PathSuffix(filename) ==
  LET ends == {i \in 1..Len(filename) :
                 /\ filename[i] # "/"
                 /\ (i = Len(filename) \/ filename[i + 1] = "/")
                 /\ ~(filename[i] = "." /\ (i = 1 \/ filename[i - 1] = "/"))}
      stop == CHOOSE i \in ends : \A j \in ends : j <= i
      slashes == {i \in 1..stop : filename[i] = "/"}
      base == IF slashes = {} THEN 1
              ELSE (CHOOSE i \in slashes : \A j \in slashes : j <= i) + 1
      name == SubSeq(filename, base, stop)
      dots == {i \in 1..Len(name) : name[i] = "."}
      last == CHOOSE i \in dots : \A j \in dots : j <= i
  IN IF ends = {} \/ dots = {} THEN <<>>
     ELSE IF last = 1 \/ last = Len(name) THEN <<>>
     ELSE Lower(SubSeq(name, last, Len(name)))

\* ExtractionResult(...).as_dict(), unless sanitizing raised
ResultOf(patient_details, metadata, tests) ==
  IF tests.exc # "" THEN [exc |-> tests.exc, result |-> <<>>]
  ELSE [exc |-> "",
        result |-> <<[patient_details |-> patient_details,
                      report_metadata |-> metadata,
                      tests |-> tests.tests]>>]

(* ReportExtractor.extract_from_text.  now is the reading of the UTC clock *)
(* the call takes.  [exc |-> the exception that escaped, "" when none,     *)
(* result |-> <<the mapping returned>>].                                   *)
extract_from_text(text, source_filename, num_pages, now) ==
  ResultOf(_extract_patient_details(text),
           [source_filename |-> source_filename,
            num_pages |-> num_pages,
            extraction_timestamp |-> now],
           _sanitize_tests(_parse_tests(text)))

(* ReportExtractor._extract_pdf_text.  A file is what the decoding         *)
(* libraries make of its bytes: [kind |-> "pdf", pages |-> the text of     *)
(* each page] or [kind |-> "image", text |-> the text OCR reads].          *)
_extract_pdf_text(file) ==
  IF file.kind # "pdf" THEN [exc |-> "FileDataError", text |-> <<>>, num_pages |-> 0]
  ELSE [exc |-> "", text |-> JoinLines(file.pages), num_pages |-> Len(file.pages)]

\* ReportExtractor._extract_image_text, pytesseract being importable or not
_extract_image_text(file, pytesseract) ==
  IF file.kind # "image" THEN [exc |-> "UnidentifiedImageError", text |-> <<>>]
  ELSE IF ~pytesseract THEN [exc |-> "RuntimeError", text |-> <<>>]
  ELSE [exc |-> "", text |-> file.text]

\* the image branch of extract: the text, and num_pages = 1
ImagePages(image) == [exc |-> image.exc, text |-> image.text, num_pages |-> 1]

\* the text acquisition of extract, by the suffix of the file name
AcquireText(file, suffix, pytesseract) ==
  IF suffix = <<".", "p", "d", "f">> THEN _extract_pdf_text(file)
  ELSE ImagePages(_extract_image_text(file, pytesseract))

\* the last line of extract
Delegate(acquired, filename, now) ==
  IF acquired.exc # "" THEN [exc |-> acquired.exc, result |-> <<>>]
  ELSE extract_from_text(acquired.text, filename, acquired.num_pages, now)

\* ReportExtractor.extract
extract(file, filename, pytesseract, now) ==
  Delegate(AcquireText(file, PathSuffix(filename), pytesseract), filename, now)

-----------------------------------------------------------------------------
(* Objects.  heap is the sequence of the objects that outlive the call     *)
(* that made them, [kind, value] each; the address of an object, by which  *)
(* the program refers to it, is its index.  The dicts of the tests are     *)
(* held in their list by value: nothing but the list refers to them.       *)

\* a ReportExtractor after __init__: an object without attributes
ReportExtractor == [kind |-> "ReportExtractor", value |-> <<>>]

\* sanitized bound to the list of an earlier call, as a default argument is
SanitizedShared(h) ==
  IF \E a \in 1..Len(h) : h[a].kind = "list"
  THEN [heap |-> h,
        ref |-> CHOOSE a \in 1..Len(h) : h[a].kind = "list" /\ \A b \in 1..(a - 1) : h[b].kind # "list"]
  ELSE [heap |-> Append(h, [kind |-> "list", value |-> <<>>]), ref |-> Len(h) + 1]

\* sanitized = [] of _sanitize_tests: a new list, [heap |-> h with it, ref |-> its address]
Sanitized(h) == [heap |-> Append(h, [kind |-> "list", value |-> <<>>]), ref |-> Len(h) + 1]

\* sanitized.append(normalized), for the tests of the loop in order
Appended(sanitized, tests) ==
  [heap |-> [sanitized.heap EXCEPT ![sanitized.ref].value = @ \o tests], ref |-> sanitized.ref]

\* the mapping as_dict returns, with the objects its references name in h
Followed(h, refs) ==
  [patient_details |-> h[refs.patient_details].value,
   report_metadata |-> h[refs.report_metadata].value,
   tests |-> h[refs.tests].value]

(* The objects of a call of extract_from_text that computed returned, in   *)
(* the order the call creates them: the dict details, the list sanitized   *)
(* with the tests appended, the dict metadata.  [heap |-> h with them,     *)
(* refs |-> <<the references of the mapping returned>>, ret |-> what the   *)
(* caller receives]; a call that raised leaves no object.                  *)
Stored(h, returned) ==
  LET details == Append(h, [kind |-> "dict", value |-> returned.result[1].patient_details])
      sanitized == Appended(Sanitized(details), returned.result[1].tests)
      metadata == Append(sanitized.heap, [kind |-> "dict", value |-> returned.result[1].report_metadata])
      refs == [patient_details |-> Len(details), report_metadata |-> Len(metadata),
               tests |-> sanitized.ref]
  IN IF returned.exc # "" THEN [heap |-> h, refs |-> <<>>, ret |-> returned]
     ELSE [heap |-> metadata, refs |-> <<refs>>,
           ret |-> [exc |-> "", result |-> <<Followed(metadata, refs)>>]]

-----------------------------------------------------------------------------
(* Inputs *)

\* all sequences over S of length at most n
BoundedSeqs(S, n) == UNION {[1..k -> S] : k \in 0..n}

\* the longest reference-range string enumerated exhaustively
MaxRangeLen == 3

\* the longest value string enumerated exhaustively
MaxValueLen == 2

\* the largest number of tokens in a generated report text
MaxTokens == 4

\* the largest number of calls made on one ReportExtractor
MaxCalls == 3

\* number literals: integers and decimals, signed, with equal values in several spellings
NumLiterals ==
  {<<"0">>, <<"5">>, <<"1", "2">>, <<"1", "6">>, <<"-", "5">>,
   <<"1", ".", "5">>, <<"1", "2", ".", "0">>, <<"1", "6", ".", "5", "0">>, <<"-", "0", ".", "5">>,
   <<"U+0663">>}

(* literals of 2^53 and 2^53 + 1: the second is no double, and float()     *)
(* rounds it to the first                                                  *)
RoundedLiterals ==
  {<<"9", "0", "0", "7", "1", "9", "9", "2", "5", "4", "7", "4", "0", "9", "9", "2">>,
   <<"9", "0", "0", "7", "1", "9", "9", "2", "5", "4", "7", "4", "0", "9", "9", "3">>}

(* values float() rounds (2^53 + 3 is no double either), reads as inf, and *)
(* reads as -0.0                                                           *)
RoundedValues ==
  RoundedLiterals
    \cup {<<"9", "0", "0", "7", "1", "9", "9", "2", "5", "4", "7", "4", "0", "9", "9", "5">>,
          <<"2", "e", "3", "0", "8">>, <<"-", "1", "e", "-", "3", "3", "0">>}

\* the floats the literals denote
Numbers == {PyFloat(a).val[1] : a \in NumLiterals \cup RoundedValues}

\* the floats classify is called with
FloatValues == Numbers \cup {Inf, NegInf, NaN}

\* "a-b" for every two literals
PairStrings == {a \o <<"-">> \o b : a \in NumLiterals, b \in NumLiterals}

\* two literals joined by the other range tokens
TokenStrings ==
  {a \o t \o b : a \in {<<"1", "2">>, <<"-", "5">>}, b \in {<<"1", "6">>, <<"1", ".", "5">>},
                 t \in {<<" ", "-", " ">>, <<" ", "t", "o", " ">>, <<"T", "O">>, <<"T", "o">>, <<"ndash">>,
                        <<" ", "mdash", " ">>, <<" ">>, <<"U+00A0", "-", "\f">>}}

ComparisonSymbols == {<<"<">>, <<"<", "=">>, <<">">>, <<">", "=">>}

\* "a-b" for the literals float() rounds, and for one of them and another number
RoundedRanges ==
  {a \o <<"-">> \o b : a \in RoundedLiterals, b \in RoundedLiterals}
    \cup {<<"5", "-">> \o a : a \in RoundedLiterals}

\* a comparison symbol, optional space, one literal
SingleBoundStrings ==
  {c \o w \o a : c \in ComparisonSymbols, w \in {<<>>, <<" ">>}, a \in NumLiterals}

\* every short string over the characters reference ranges are made of
ShortRangeStrings == BoundedSeqs({"1", "2", "-", "<", " "}, MaxRangeLen)

RangeStrings == PairStrings \cup TokenStrings \cup SingleBoundStrings \cup ShortRangeStrings

\* every short string over the characters values are made of, and beside them
ShortValueStrings == BoundedSeqs({"1", ".", "-", " ", "a"}, MaxValueLen)

ValueStrings ==
  NumLiterals \cup ShortValueStrings
    \cup {<<"a", "b", "c">>, <<"1", "4">>, <<" ", "1", "4", " ">>, <<"+", "5">>, <<"5", ".">>,
          <<".", "5">>, <<"1", ".", "2", ".", "3">>, <<"n", "a", "n">>, <<"-", "I", "n", "f">>,
          <<"1", "e", "1">>, <<"1", "5", "E", "-", "1">>, <<"1", "_", "4">>, <<"1", "_">>,
          <<"U+00A0", "1", "U+0664", "\f">>, <<"U+001C", "5">>, <<"U+00B2">>}

\* the reference ranges the short value strings are flagged against
FlagRanges ==
  {<<"1", "2", "-", "1", "6">>, <<"1", "6", " ", "t", "o", " ", "1", "2">>, <<>>, <<">", " ", "5">>, <<"<", "=", "5">>, <<"-", "1", " ", "-", " ", "1">>, <<"1", " ", "0">>, <<"x">>}

\* the calls of classify on one range
ClassifyCalls(self, values) == {<<"classify", [self |-> self, value |-> v]>> : v \in values}

\* the calls of the classifier's three functions that are checked
FlagCalls ==
  {<<"parse_range", [reference_range |-> r]>> : r \in RangeStrings \cup RoundedRanges}
  \cup {<<"compute_flag", [value |-> v, reference_range |-> r]>> :
          v \in ValueStrings, r \in FlagRanges}
  \cup {<<"compute_flag", [value |-> v, reference_range |-> r]>> :
          v \in NumLiterals, r \in RangeStrings}
  \cup {<<"classify", [self |-> _parse_range(r), value |-> v]>> :
          r \in PairStrings \cup SingleBoundStrings, v \in FloatValues}
  \cup {<<"compute_flag", [value |-> v, reference_range |-> r]>> :
          v \in RoundedValues, r \in RoundedRanges}
  \cup UNION {ClassifyCalls(_parse_range(r), FloatValues) : r \in RoundedRanges}

\* SAMPLE_TEXT of tests/test_extractor.py
SAMPLE_TEXT ==
  <<"P", "a", "t", "i", "e", "n", "t", " ", "N", "a", "m", "e", ":", " ", "J", "a", "n", "e",
    " ", "D", "o", "e", " ", " ", "A", "g", "e", ":", " ", "4", "5", " ", " ", "G", "e", "n",
    "d", "e", "r", ":", " ", "F", "e", "m", "a", "l", "e", "\n", "H", "e", "m", "o", "g", "l",
    "o", "b", "i", "n", " ", "1", "1", ".", "2", " ", "g", "/", "d", "L", " ", "1", "2", " ",
    "-", " ", "1", "6", "\n", "P", "l", "a", "t", "e", "l", "e", "t", " ", "C", "o", "u", "n",
    "t", " ", "4", "2", "0", " ", "x", "1", "0", "^", "3", "/", "u", "L", " ", "1", "5", "0",
    "-", "4", "0", "0">>

\* the pieces generated report texts are made of
Tokens ==
  {<<"H", "b", " ">>, <<"5">>, <<"0">>, <<" ", "1", "-", "9">>, <<"\n">>, <<"A", "g", "e">>, <<":", " ">>,
   <<"L", "A", "B">>, <<"\f">>}

GenTexts == {Flatten(ts) : ts \in BoundedSeqs(Tokens, MaxTokens)}

\* the parts of a generated test line: name, value, unit, and what follows the unit
LineNames == {<<"H", "b", " ">>, <<"W", "b", "c", " ", "-", " ">>}

LineValues == {<<"5">>, <<"-", "5">>, <<"1", "2", ".", "5">>, <<"0">>, <<"U+0663">>}

LineUnits == {<<>>, <<" ", "g", "/", "d", "L">>, <<" ", "x", "1", "0", "^", "3", "/", "u", "L">>}

\* what stands between two numbers: the range tokens as written in reports, and a blank
LineJoins ==
  {<<"-">>, <<" ", "-", " ">>, <<"t", "o">>, <<" ", "T", "O", " ">>, <<" ", "T", "o", " ">>,
   <<" ", "t", "O", " ">>, <<"ndash">>, <<" ", "mdash", " ">>, <<" ">>}

LineRanges ==
  {<<>>, <<" ", "<", "5">>}
    \cup {<<" ">> \o a \o t \o b :
            a \in {<<"1">>, <<"-", "5">>, <<"4", ".", "5">>},
            t \in LineJoins,
            b \in {<<"9">>, <<"-", "1">>, <<"1", "2", ".", "0">>, <<"U+0669">>}}

\* the lines of the parts, and lines whose numbers float() rounds
LineTexts ==
  {n \o v \o u \o r : n \in LineNames, v \in LineValues, u \in LineUnits, r \in LineRanges}
    \cup {<<"H", "b", " ">> \o v \o <<" ">> \o r : v \in RoundedLiterals, r \in RoundedRanges}

\* the texts, file names, page counts and files of the calls on a ReportExtractor
CallTexts ==
  {SAMPLE_TEXT, <<"H", "b", " ", "5", " ", "1", "-", "9", "\n", "P", "a", "t", "i", "e", "n", "t", " ", "A", "g", "e", ":", " ", "4", "5">>}

Filenames == {<<"s", "a", "m", "p", "l", "e", ".", "t", "x", "t">>, <<"r", ".", "P", "D", "F">>}

\* the names of the uploads: a text file, and a PDF named with a trailing slash
UploadNames == {<<"s", "a", "m", "p", "l", "e", ".", "t", "x", "t">>, <<"r", ".", "P", "D", "F", "/">>}

PageCounts == {0, 1}

Files ==
  {[kind |-> "pdf", pages |-> <<<<"H", "b", " ", "5", " ", "1", "-", "9">>, <<"A", "g", "e", ":", " ", "7">>>>],
   [kind |-> "image", text |-> <<"H", "b", " ", "5", " ", "1", "-", "9">>]}

-----------------------------------------------------------------------------
(* The classifier's functions, each applied to one input *)

InitFlag ==
  /\ \E c \in FlagCalls : op = c[1] /\ arg = c[2]
  /\ out = <<>>
  /\ pc = "call"
  /\ calls = <<>>
  /\ heap = <<>>

ParseRangeCall ==
  /\ pc = "call" /\ op = "parse_range"
  /\ out' = _parse_range(arg.reference_range)
  /\ pc' = "done"
  /\ UNCHANGED <<op, arg, calls, heap>>

ComputeFlagCall ==
  /\ pc = "call" /\ op = "compute_flag"
  /\ out' = compute_flag(arg.value, arg.reference_range)
  /\ pc' = "done"
  /\ UNCHANGED <<op, arg, calls, heap>>

ClassifyCall ==
  /\ pc = "call" /\ op = "classify"
  /\ out' = classify(arg.self, arg.value)
  /\ pc' = "done"
  /\ UNCHANGED <<op, arg, calls, heap>>

NextFlag == ParseRangeCall \/ ComputeFlagCall \/ ClassifyCall

SpecFlag == InitFlag /\ [][NextFlag]_vars

-----------------------------------------------------------------------------
(* extract_from_text applied to one generated text *)

InitText ==
  /\ op = "extract_from_text"
  /\ \E t \in GenTexts : arg = [text |-> t, source_filename |-> <<"r", ".", "t", "x", "t">>, num_pages |-> 1]
  /\ out = <<>>
  /\ pc = "call"
  /\ calls = <<>>
  /\ heap = <<ReportExtractor>>

ExtractFromTextCall ==
  /\ pc = "call" /\ op = "extract_from_text"
  /\ \E s \in {Stored(heap, extract_from_text(arg.text, arg.source_filename, arg.num_pages, 0))} :
       out' = s.ret /\ heap' = s.heap
  /\ pc' = "done"
  /\ UNCHANGED <<op, arg, calls>>

NextText == ExtractFromTextCall

SpecText == InitText /\ [][NextText]_vars

-----------------------------------------------------------------------------
(* extract_from_text on one generated test line.                           *)

InitLine ==
  /\ op = "extract_from_text"
  /\ \E t \in LineTexts : arg = [text |-> t, source_filename |-> <<"r", ".", "t", "x", "t">>, num_pages |-> 1]
  /\ out = <<>>
  /\ pc = "call"
  /\ calls = <<>>
  /\ heap = <<ReportExtractor>>

NextLine == ExtractFromTextCall

SpecLine == InitLine /\ [][NextLine]_vars

-----------------------------------------------------------------------------
(* One ReportExtractor and the calls made on it.  calls records each call  *)
(* with its arguments, what it returned as it was when it returned, and    *)
(* the references it returned; the clock a call reads is the number of     *)
(* calls made before it.                                                   *)

Init ==
  /\ calls = <<>>
  /\ heap = <<ReportExtractor>>
  /\ op = "" /\ arg = <<>> /\ out = <<>> /\ pc = "idle"

ExtractFromText(text, source_filename, num_pages) ==
  /\ Len(calls) < MaxCalls
  /\ \E s \in {Stored(heap, extract_from_text(text, source_filename, num_pages, Len(calls)))} :
       /\ heap' = s.heap
       /\ calls' = Append(calls,
            [method |-> "extract_from_text", text |-> text, filename |-> source_filename,
             num_pages |-> num_pages, ret |-> s.ret, refs |-> s.refs])
  /\ UNCHANGED <<op, arg, out, pc>>

Extract(file, filename, pytesseract) ==
  /\ Len(calls) < MaxCalls
  /\ \E s \in {Stored(heap, extract(file, filename, pytesseract, Len(calls)))} :
       /\ heap' = s.heap
       /\ calls' = Append(calls,
            [method |-> "extract", file |-> file, filename |-> filename,
             ret |-> s.ret, refs |-> s.refs])
  /\ UNCHANGED <<op, arg, out, pc>>

Next ==
  \/ \E text \in CallTexts, source_filename \in Filenames, num_pages \in PageCounts :
       ExtractFromText(text, source_filename, num_pages)
  \/ \E file \in Files, filename \in UploadNames, pytesseract \in BOOLEAN :
       Extract(file, filename, pytesseract)

Spec == Init /\ [][Next]_vars

-----------------------------------------------------------------------------
(* Properties *)

\* the calls of extract_from_text made so far that returned
ReturnedTextCalls ==
  {i \in 1..Len(calls) : calls[i].method = "extract_from_text" /\ calls[i].ret.result # <<>>}

\* the five fields of a test record the end-to-end scenario states
CoreFields(test) ==
  [name |-> test.name, value |-> test.value, unit |-> test.unit,
   reference_range |-> test.reference_range, flag |-> test.flag]

SampleHemoglobin ==
  [name |-> <<"H", "e", "m", "o", "g", "l", "o", "b", "i", "n">>,
   value |-> <<"1", "1", ".", "2">>, unit |-> <<"g", "/", "d", "L">>,
   reference_range |-> <<"1", "2", " ", "-", " ", "1", "6">>, flag |-> <<"l", "o", "w">>]

SamplePlatelets ==
  [name |-> <<"P", "l", "a", "t", "e", "l", "e", "t", " ", "C", "o", "u", "n", "t">>,
   value |-> <<"4", "2", "0">>, unit |-> <<"x", "1", "0", "^", "3", "/", "u", "L">>,
   reference_range |-> <<"1", "5", "0", "-", "4", "0", "0">>, flag |-> <<"h", "i", "g", "h">>]

\* C1: every call of extract_from_text on SAMPLE_TEXT returns exactly two test
\* records, in line order: Hemoglobin 11.2 g/dL "12 - 16" low, then Platelet
\* Count 420 x10^3/uL "150-400" high; the patient line yields no record.
C1_SampleTests ==
  \A i \in 1..Len(calls) :
    calls[i].method = "extract_from_text" /\ calls[i].text = SAMPLE_TEXT =>
      /\ calls[i].ret.exc = ""
      /\ Len(calls[i].ret.result[1].tests) = 2
      /\ CoreFields(calls[i].ret.result[1].tests[1]) = SampleHemoglobin
      /\ CoreFields(calls[i].ret.result[1].tests[2]) = SamplePlatelets

C1_Witness ==
  \E i \in ReturnedTextCalls :
    /\ calls[i].text = SAMPLE_TEXT
    /\ Len(calls[i].ret.result[1].tests) = 2
    /\ calls[i].ret.result[1].tests[2].flag = <<"h", "i", "g", "h">>

\* C2: every call of extract_from_text on SAMPLE_TEXT returns
\* patient_details.name = "Jane Doe" and patient_details.age = "45": a field's
\* value stops before the next label on its line.
C2_SamplePatient ==
  \A i \in ReturnedTextCalls :
    calls[i].text = SAMPLE_TEXT =>
      /\ calls[i].ret.result[1].patient_details.name = <<"J", "a", "n", "e", " ", "D", "o", "e">>
      /\ calls[i].ret.result[1].patient_details.age = <<"4", "5">>

\* a Python str: a sequence of characters
IsStr(v) == DOMAIN v = 1..Len(v) /\ \A i \in 1..Len(v) : v[i] \in STRING

TestKeys == {"name", "value", "unit", "reference_range", "flag", "raw_text_snippet"}

\* C3: for every text, extract_from_text returns a mapping with exactly the keys
\* patient_details, report_metadata and tests; patient_details has all seven keys,
\* each a string; every test has exactly the six keys, each a string; every flag
\* is "", "low", "normal" or "high".
C3_OutputShape ==
  op = "extract_from_text" /\ pc = "done" =>
    /\ out.exc = "" /\ Len(out.result) = 1
    /\ DOMAIN out.result[1] = {"patient_details", "report_metadata", "tests"}
    /\ DOMAIN out.result[1].patient_details = PatientKeys
    /\ \A k \in PatientKeys : IsStr(out.result[1].patient_details[k])
    /\ \A i \in 1..Len(out.result[1].tests) :
         /\ DOMAIN out.result[1].tests[i] = TestKeys
         /\ \A k \in TestKeys : IsStr(out.result[1].tests[i][k])
         /\ out.result[1].tests[i].flag \in {<<>>, <<"l", "o", "w">>, <<"n", "o", "r", "m", "a", "l">>, <<"h", "i", "g", "h">>}

C3_Witness ==
  /\ op = "extract_from_text" /\ pc = "done"
  /\ arg.text = <<"H", "b", " ", "5", "0", " ", "1", "-", "9">>
  /\ Len(out.result[1].tests) = 1
  /\ out.result[1].tests[1].flag = <<"h", "i", "g", "h">>
  /\ out.result[1].patient_details.age = <<>>

\* C4: for a ParsedRange with both bounds, as parse_range builds them, and a
\* value v, classify returns "low" exactly when v < low, "high" exactly when
\* v > high, and "normal" otherwise: v = low and v = high are "normal".
C4_Classify ==
  op = "classify" /\ pc = "done" /\ arg.self.low # <<>> /\ arg.self.high # <<>> =>
    /\ (out = <<"l", "o", "w">>) <=> NumLess(arg.value, arg.self.low[1])
    /\ (out = <<"h", "i", "g", "h">>) <=> NumLess(arg.self.high[1], arg.value)
    /\ (out = <<"n", "o", "r", "m", "a", "l">>) <=>
         ~NumLess(arg.value, arg.self.low[1]) /\ ~NumLess(arg.self.high[1], arg.value)
    /\ arg.value \in {arg.self.low[1], arg.self.high[1]} => out = <<"n", "o", "r", "m", "a", "l">>

C4_Witness ==
  /\ op = "classify" /\ pc = "done"
  /\ arg.self.low = <<Finite(FALSE, <<1, 2>>, 0)>> /\ arg.self.high = <<Finite(FALSE, <<1, 6>>, 0)>>
  /\ arg.value = Finite(FALSE, <<1, 6>>, 0)
  /\ out = <<"n", "o", "r", "m", "a", "l">>

\* C5: parse_range("a-b") is the range {low: min(a, b), high: max(a, b)} for
\* every two numbers a and b, in either order; every range parse_range returns
\* with both bounds has low <= high.
C5_RangeOrder ==
  op = "parse_range" /\ pc = "done" =>
    /\ \A a \in NumLiterals \cup RoundedLiterals, b \in NumLiterals \cup RoundedLiterals :
         arg.reference_range = a \o <<"-">> \o b =>
           out = [exc |-> "",
                  low |-> <<NumMin(PyFloat(a).val[1], PyFloat(b).val[1])>>,
                  high |-> <<NumMax(PyFloat(a).val[1], PyFloat(b).val[1])>>]
    /\ out.low # <<>> /\ out.high # <<>> => ~NumLess(out.high[1], out.low[1])

C5_Witness ==
  /\ op = "parse_range" /\ pc = "done"
  /\ arg.reference_range = <<"1", "6", "-", "1", "2">>
  /\ out.low = <<Finite(FALSE, <<1, 2>>, 0)>> /\ out.high = <<Finite(FALSE, <<1, 6>>, 0)>>

\* the reference range is a comparison symbol, optional space and the number a
IsSingleBound(r, symbols, a) == \E c \in symbols, w \in {<<>>, <<" ">>} : r = c \o w \o a

\* C6: for a reference range that is a comparison symbol and one number,
\* parse_range returns a one-sided interval (> and >= set low alone, < and <=
\* set high alone), and classify and compute_flag return "" for every value.
C6_OneSided ==
  /\ op = "parse_range" /\ pc = "done" =>
       \A a \in NumLiterals :
         /\ IsSingleBound(arg.reference_range, {<<">">>, <<">", "=">>}, a) =>
              out = [exc |-> "", low |-> PyFloat(a).val, high |-> <<>>]
         /\ IsSingleBound(arg.reference_range, {<<"<">>, <<"<", "=">>}, a) =>
              out = [exc |-> "", low |-> <<>>, high |-> PyFloat(a).val]
  /\ op = "compute_flag" /\ pc = "done" =>
       \A a \in NumLiterals :
         IsSingleBound(arg.reference_range, ComparisonSymbols, a) => out = [exc |-> "", flag |-> <<>>]
  /\ op = "classify" /\ pc = "done" =>
       (arg.self.low = <<>> \/ arg.self.high = <<>> => out = <<>>)

C6_Witness ==
  /\ op = "compute_flag" /\ pc = "done"
  /\ arg.reference_range = <<">", " ", "5">> /\ arg.value = <<"1", "2">>
  /\ out.flag = <<>>

\* C7: compute_flag raises for no pair of strings; it returns "" when the value,
\* the whitespace around it put aside, is not a number, when the reference range
\* is empty and when the range lacks a bound, and the classification of the
\* value against the range otherwise.
C7_ComputeFlag ==
  op = "compute_flag" /\ pc = "done" =>
    /\ out.exc = ""
    /\ PyFloat(Strip(arg.value)).exc # "" => out.flag = <<>>
    /\ arg.reference_range = <<>> => out.flag = <<>>
    /\ _parse_range(arg.reference_range).low = <<>> => out.flag = <<>>
    /\ _parse_range(arg.reference_range).high = <<>> => out.flag = <<>>
    /\ ( /\ PyFloat(Strip(arg.value)).exc = ""
         /\ _parse_range(arg.reference_range).low # <<>>
         /\ _parse_range(arg.reference_range).high # <<>> ) =>
         /\ out.flag \in {<<"l", "o", "w">>, <<"n", "o", "r", "m", "a", "l">>, <<"h", "i", "g", "h">>}
         /\ out.flag = classify(_parse_range(arg.reference_range), PyFloat(Strip(arg.value)).val[1])

C7_Witness ==
  /\ op = "compute_flag" /\ pc = "done"
  /\ arg.value = <<"a", "b", "c">> /\ arg.reference_range = <<"1", "2", "-", "1", "6">>
  /\ out = [exc |-> "", flag |-> <<>>]

\* the line contains a metadata keyword, whatever the case of its letters
KeywordLine(line) ==
  \E keyword \in MetadataKeywords, i \in 1..Len(line) :
    /\ i + Len(keyword) - 1 <= Len(line)
    /\ \A j \in 1..Len(keyword) : LowerChar(line[i + j - 1]) = <<keyword[j]>>

\* C8: no test record of the result comes from a line of the text that contains
\* one of the metadata keywords in any letter case, digits or not: the records
\* are at most as many as the other lines, and none has such a line as snippet.
C8_MetadataExclusion ==
  op = "extract_from_text" /\ pc = "done" /\ out.result # <<>> =>
    /\ \A n \in 1..Len(SplitLines(arg.text)), i \in 1..Len(out.result[1].tests) :
         KeywordLine(SplitLines(arg.text)[n]) =>
           out.result[1].tests[i].raw_text_snippet # JoinSplit(SplitLines(arg.text)[n])
    /\ Len(out.result[1].tests) <=
         Cardinality({n \in 1..Len(SplitLines(arg.text)) : ~KeywordLine(SplitLines(arg.text)[n])})

C8_Witness ==
  /\ op = "extract_from_text" /\ pc = "done"
  /\ arg.text = <<"L", "A", "B", "5", " ", "1", "-", "9">>
  /\ out.result[1].tests = <<>>

\* C9: in every result the extractor returns, from extract_from_text with any
\* num_pages and from extract, report_metadata.num_pages is at least 1.
C9_NumPages ==
  \A i \in 1..Len(calls) :
    calls[i].ret.result # <<>> => calls[i].ret.result[1].report_metadata.num_pages >= 1

\* the addresses of the objects a returned mapping refers to
Referred(refs) == {refs.patient_details, refs.report_metadata, refs.tests}

\* C10: any two calls of extract_from_text with the same text return the same
\* patient_details and the same tests, whatever their file names and page
\* counts and whatever calls came before or between them; the calls keep no
\* state: every result is made of objects of its own, no later call changes
\* a result that was returned, and the extractor gains no attribute.
C10_Deterministic ==
  /\ \A i \in 1..Len(calls), j \in 1..Len(calls) :
       ( /\ calls[i].method = "extract_from_text"
         /\ calls[j].method = "extract_from_text"
         /\ calls[i].text = calls[j].text ) =>
         /\ calls[i].ret.exc = calls[j].ret.exc
         /\ calls[i].ret.result # <<>> =>
              /\ calls[i].ret.result[1].patient_details = calls[j].ret.result[1].patient_details
              /\ calls[i].ret.result[1].tests = calls[j].ret.result[1].tests
  /\ \A i \in 1..Len(calls) :
       calls[i].refs # <<>> =>
         /\ Followed(heap, calls[i].refs[1]) = calls[i].ret.result[1]
         /\ \A j \in 1..Len(calls) :
              j # i /\ calls[j].refs # <<>> =>
                Referred(calls[i].refs[1]) \cap Referred(calls[j].refs[1]) = {}
  /\ heap[1] = ReportExtractor

C10_Witness ==
  /\ Len(calls) = 3
  /\ calls[1].method = "extract_from_text" /\ calls[3].method = "extract_from_text"
  /\ calls[1].text = calls[3].text
  /\ calls[1].filename # calls[3].filename
  /\ calls[1].num_pages # calls[3].num_pages
  /\ calls[2].method = "extract_from_text" /\ calls[2].text # calls[1].text
  /\ calls[1].ret.result # <<>> /\ calls[3].ret.result # <<>>
  /\ calls[1].ret.result[1].tests # <<>>
  /\ calls[1].ret.result[1].report_metadata # calls[3].ret.result[1].report_metadata
  /\ calls[2].ret.result # <<>>
  /\ calls[2].ret.result[1].tests # calls[1].ret.result[1].tests
  /\ calls[1].refs # <<>> /\ calls[3].refs # <<>>
  /\ calls[1].refs[1].tests # calls[3].refs[1].tests
  /\ Len(heap) = 10

\* the characters a cleaned patient field neither begins nor ends with
TrimChars == Whitespace \cup {"-", ":"}

\* v neither begins nor ends with whitespace, "-" or ":"
Trimmed(v) == v = <<>> \/ (v[1] \notin TrimChars /\ v[Len(v)] \notin TrimChars)

\* the end of the line that holds position j: the first line boundary at or after j
RECURSIVE LineEnd(_, _)
LineEnd(text, j) ==
  IF j <= Len(text) /\ ~IsLineBreak(text[j]) THEN LineEnd(text, j + 1) ELSE j

\* label stands at i in text and v at j after it on the same line, with
\* nothing but whitespace, "-" and ":" between them and up to the line's end
RemainderAt(text, label, v, i, j) ==
  /\ LabelAt(text, i, label)
  /\ j >= i + Len(label)
  /\ OccursAt(text, j, v)
  /\ \A h \in i..(j + Len(v) - 1) : ~IsLineBreak(text[h])
  /\ \A h \in (i + Len(label))..(j - 1) : text[h] \in TrimChars
  /\ \A h \in (j + Len(v))..(LineEnd(text, j) - 1) : text[h] \in TrimChars

\* v is the trimmed remainder of a line of text after one of the labels of key
LineRemainder(text, key, v) ==
  \E p \in 1..Len(PATIENT_FIELD_PATTERNS[key]) :
    \E r \in 1..Len(PATIENT_FIELD_PATTERNS[key][p]) :
      \E i \in 1..Len(text), j \in 1..Len(text) :
        RemainderAt(text, PATIENT_FIELD_PATTERNS[key][p][r], v, i, j)

\* C11: every patient field that is found holds the trimmed remainder of the
\* line its label stands on: it has no text of a following line, also when the
\* label and its separator end their line, and it neither begins nor ends
\* with whitespace, "-" or ":".
C11_PatientFieldLine ==
  op = "extract_from_text" /\ pc = "done" /\ out.result # <<>> =>
    \A key \in PatientKeys :
      out.result[1].patient_details[key] # <<>> =>
        /\ Trimmed(out.result[1].patient_details[key])
        /\ LineRemainder(arg.text, key, out.result[1].patient_details[key])

\* what C11 is violated by: the value of the line after "Age: ", and a value
\* that keeps the space after a second separator
C11_NextLine ==
  /\ op = "extract_from_text" /\ pc = "done"
  /\ arg.text = <<"A", "g", "e", ":", " ", "\n", "5">>
  /\ out.result[1].patient_details.age = <<"5">>

C11_LeadingSpace ==
  /\ op = "extract_from_text" /\ pc = "done"
  /\ arg.text = <<"A", "g", "e", ":", " ", ":", " ", "5">>
  /\ out.result[1].patient_details.age = <<" ", "5">>

\* the remainder of _parse_test_line: the line after the value match, stripped
RemainderOf(line, value_match) == Strip(SubSeq(line, value_match[1].end, Len(line)))

\* test has as reference_range the span m of rem and as unit what is before it
\* (trimmed of "-", ":" and blanks), or no reference_range when there is no m
RangeOfRemainder(test, rem, m) ==
  IF m = <<>>
  THEN test.reference_range = <<>> /\ test.unit = Strip(rem)
  ELSE /\ test.reference_range = Slice(rem, m[1].start, m[1].end)
       /\ test.unit = StripChars(Slice(rem, 1, m[1].start), {"-", ":", " "})

\* s with every letter that has a lower case of one character in that case
LowerEach(s) ==
  [i \in 1..Len(s) |-> IF Len(LowerChar(s[i])) = 1 THEN LowerChar(s[i])[1] ELSE s[i]]

\* the first range of rem with "to" in any letter case is the first range of
\* the lowered rem: digits, signs, dashes and blanks have no case
AnyCaseRange(test, rem) == RangeOfRemainder(test, rem, RangeSearch(LowerEach(rem)))

\* C12: the reference_range of every test record is the first substring of
\* the remainder, the text after the value token, made of two numbers joined
\* by hyphen, en dash, em dash or the word "to" in any letter case; it is empty
\* only when the remainder has no such substring, and unit is the text of the
\* remainder before it.
C12_ReferenceRange ==
  op = "extract_from_text" /\ pc = "done" /\ out.result # <<>> =>
    \A i \in 1..Len(out.result[1].tests) :
      AnyCaseRange(out.result[1].tests[i],
                   RemainderOf(out.result[1].tests[i].raw_text_snippet,
                               ValueSearch(out.result[1].tests[i].raw_text_snippet)))

\* what C12 is violated by: "To" is not taken as a range token
C12_MixedCase ==
  /\ op = "extract_from_text" /\ pc = "done"
  /\ arg.text = <<"H", "b", " ", "5", " ", "1", " ", "T", "o", " ", "9">>
  /\ out.result[1].tests[1].reference_range = <<>>
  /\ out.result[1].tests[1].unit = <<"1", " ", "T", "o", " ", "9">>

\* the classifier finds two bounds in the range
TwoBounds(parsed_range) ==
  parsed_range.exc = "" /\ parsed_range.low # <<>> /\ parsed_range.high # <<>>

\* value is a number for float()
IsNumeric(numeric_value) == numeric_value.exc = "" /\ numeric_value.val # <<>>

\* C13: in every result of extract_from_text the flag of a test record is one
\* of low, normal, high exactly when its reference_range is not empty, and
\* empty otherwise: the classifier parses every range the extractor recognises
\* into two bounds, and the extracted value is always a number.
C13_FlagIffRange ==
  op = "extract_from_text" /\ pc = "done" =>
    /\ out.exc = "" /\ out.result # <<>>
    /\ \A i \in 1..Len(out.result[1].tests) :
         /\ out.result[1].tests[i].flag \in {<<>>, <<"l", "o", "w">>, <<"n", "o", "r", "m", "a", "l">>, <<"h", "i", "g", "h">>}
         /\ out.result[1].tests[i].flag # <<>> <=> out.result[1].tests[i].reference_range # <<>>
         /\ IsNumeric(PyFloat(out.result[1].tests[i].value))
         /\ out.result[1].tests[i].reference_range # <<>> =>
              TwoBounds(_parse_range(out.result[1].tests[i].reference_range))

C13_Witness ==
  /\ op = "extract_from_text" /\ pc = "done"
  /\ arg.text = <<"H", "b", " ", "1", "2", ".", "5", " ", "g", "/", "d", "L", " ", "-", "5", " ", "T", "O", " ", "1", "2", ".", "0">>
  /\ Len(out.result[1].tests) = 1
  /\ out.result[1].tests[1].value = <<"1", "2", ".", "5">>
  /\ out.result[1].tests[1].reference_range = <<"-", "5", " ", "T", "O", " ", "1", "2", ".", "0">>
  /\ out.result[1].tests[1].flag = <<"h", "i", "g", "h">>

====
